---------------------------- MODULE Spec2Model ----------------------------
(***************************************************************************)
(* A model of itemal.py (ITEM anALysis): the response model (Options,      *)
(* StudentAnswers, ExamSection, Exam) and the statistics engine StatData.  *)
(*                                                                         *)
(* Python objects are records; a method is an operator from the receiver   *)
(* (and arguments) to a record [res, obj]: res is "ok" or the name of the  *)
(* exception the call raises, obj is the receiver after the call.  A dict  *)
(* is a function whose domain is the set of keys present.                  *)
(***************************************************************************)
EXTENDS Integers, Sequences, FiniteSets, TLC

(***************************************************************************)
(* Bounds of the model.                                                    *)
(***************************************************************************)
MaxChoice == 2          \* largest answer index drawn as an input
MaxQuestions == 2       \* longest answer key / answer vector drawn
MaxStudents == 1        \* most students in one group drawn as an input
MaxGroups == 2          \* most groups added to one section
MaxSections == 2        \* most sections attached to one exam
MaxMessages == 3        \* warnings the memory holds before it is exhausted
MaxRespondents == 6     \* most students of a section the item statistics are studied on
MaxItems == 3           \* most questions of such a section
MaxResponses == 12      \* most responses (students times questions) of such a section
PairedStudents == 2     \* students of each section of a two-section exam
MaxGroupStudents == 4   \* students of a group whose scores are recomputed
MaxRank == 2            \* highest rank of the SparseStorage studied
MaxIndex == 1           \* highest index along a dimension of it
MaxWrites == 2          \* most writes made to it

VARIABLES
    sections,   \* the ExamSection objects, by identity
    exam,       \* the Exam object
    last,       \* the last call: its name, receiver, result, the options
                \* its section argument(s) had set beforehand, and the
                \* list it returned
    stat,       \* the StatData object, and where processExam stands
    sparse      \* a SparseStorage object, with the writes made to it

vars == <<sections, exam, last, stat, sparse>>

(***************************************************************************)
(* Helpers for Python built-ins.                                           *)
(***************************************************************************)
Range(s) == {s[k] : k \in 1..Len(s)}

\* max(seq), for a non-empty seq
PyMax(s) == CHOOSE m \in Range(s) : \A x \in Range(s) : x <= m

\* functools.reduce(lambda a, b: a + b, seq, 0)
RECURSIVE SumSeq(_)
SumSeq(s) == IF s = <<>> THEN 0 ELSE s[1] + SumSeq(Tail(s))

\* all sequences over S of length lo..hi
SeqsOf(S, lo, hi) == UNION {[1..n -> S] : n \in lo..hi}

Ok(obj) == [res |-> "ok", obj |-> obj]
Raise(exc, obj) == [res |-> exc, obj |-> obj]

(***************************************************************************)
(* class Options                                                           *)
(***************************************************************************)
OptionKeys == {"is-order-reversed", "number-of-copies", "should-eval-full-exam-only"}

defaultValues ==
    [k \in OptionKeys |->
        CASE k = "is-order-reversed" -> FALSE
          [] k = "number-of-copies" -> 1
          [] k = "should-eval-full-exam-only" -> FALSE]

\* Options(): no value assigned
EmptyOptions == [k \in {} |-> 0]

\* Options(fromDict): the recognised keys of fromDict, copied
Options_init(fromDict) ==
    [k \in (OptionKeys \cap DOMAIN fromDict) |-> fromDict[k]]

\* Options.__getitem__
Options_getitem(values, key) ==
    IF key \in DOMAIN values THEN values[key] ELSE defaultValues[key]

\* dict.update
DictUpdate(values, other) ==
    [k \in (DOMAIN values \cup DOMAIN other) |->
        IF k \in DOMAIN other THEN other[k] ELSE values[k]]

\* Options.mergeWithOptions / mergeWithOptionsDict
mergeWithOptions(values, otherOptions) == DictUpdate(values, otherOptions)


(***************************************************************************)
(* class StudentAnswers: [groupId, scores, answers]                        *)
(***************************************************************************)
\* Python's default ==: a StudentAnswers object (the class defines no
\* __eq__) never equals a str
StudentAnswers_eq_str(studentAnswers, str) == FALSE

\* StudentAnswers(); setGroupId(groupId)
StudentAnswers_init(groupId) ==
    [groupId |-> groupId, scores |-> <<>>, answers |-> <<>>]

\* StudentAnswers.appendStudentData
appendStudentData(g, score, answers) ==
    IF Len(g.answers) > 0 /\ Len(answers) # Len(g.answers[1])
    THEN Raise("ValueError", g)
    ELSE Ok([g EXCEPT !.answers = Append(@, answers),
                      !.scores = Append(@, score)])

\* a group filled by appendStudentData(0, row) for each row, in order;
\* rows an append refuses are left out
RECURSIVE StudentAnswers_filled(_, _)
StudentAnswers_filled(g, rows) ==
    IF rows = <<>> THEN g
    ELSE StudentAnswers_filled(appendStudentData(g, 0, rows[1]).obj, Tail(rows))

\* StudentAnswers.answerCount
answerCount(g) == IF Len(g.answers) > 0 THEN Len(g.answers[1]) ELSE 0

\* StudentAnswers.studentCount
StudentAnswers_studentCount(g) == Len(g.answers)

\* StudentAnswers.maxResponseCount (called only where answerCount(g) > 0,
\* so every vector is non-empty)
maxResponseCount(g) ==
    PyMax([a \in 1..Len(g.answers) |-> PyMax(g.answers[a])])

\* the score counting the positions that differ instead
ScoreOfMismatches(A, answerKey) ==
    Cardinality({k \in 1..Len(A) : k <= Len(answerKey) /\ A[k] # answerKey[k]})

\* the score of one answer vector: the number of positions that match
ScoreOf(A, answerKey) ==
    Cardinality({k \in 1..Len(A) : k <= Len(answerKey) /\ A[k] = answerKey[k]})

\* StudentAnswers.calculateScoresForAnswerKey
calculateScoresForAnswerKey(g, answerKey) ==
    IF Len(g.answers) > 0
    THEN IF Len(answerKey) # Len(g.answers[1])
         THEN Raise("ValueError", g)
         ELSE IF Len(answerKey) = 0
         THEN Raise("TypeError", g)    \* reduce() of an empty list
         ELSE Ok([g EXCEPT !.scores =
                     [a \in 1..Len(g.answers) |-> ScoreOf(g.answers[a], answerKey)]])
    ELSE Ok(g)

\* StudentAnswers.reverseAnswerOrdering: the comprehension runs over the
\* students' answer LISTS; "n + 1 - i" with i a non-empty list raises
\* TypeError, and an empty list (falsy) is replaced by the integer 0
reverseAnswerOrdering(g, responsesPerAnswer) ==
    IF Len(g.answers) > 0
    THEN IF \E a \in 1..Len(g.answers) : g.answers[a] # <<>>
         THEN Raise("TypeError", g)
         ELSE Ok([g EXCEPT !.answers = [a \in 1..Len(g.answers) |-> 0]])
    ELSE Ok(g)

(***************************************************************************)
(* class ExamSection:                                                      *)
(*   [responsesPerQuestion, answerKey, studentAnswersGroups, options]      *)
(***************************************************************************)
\* ExamSection(): no dictionary, so the options start empty
ExamSection_init ==
    [responsesPerQuestion |-> 0, answerKey |-> <<>>,
     studentAnswersGroups |-> <<>>, options |-> EmptyOptions]

\* ExamSection.setOptions
ExamSection_setOptions(sec, options) ==
    Ok([sec EXCEPT !.options = Options_init(options)])

\* ExamSection.setResponsesPerQuestion
setResponsesPerQuestion(sec, responsesPerQuestion) ==
    IF Len(sec.answerKey) > 0 /\ PyMax(sec.answerKey) > responsesPerQuestion
    THEN Raise("ValueError", sec)
    ELSE Ok([sec EXCEPT !.responsesPerQuestion = responsesPerQuestion])

\* ExamSection.questionCount
questionCount(sec) == Len(sec.answerKey)

\* ExamSection.setAnswerKey.  The two raise statements build their message
\* from an undefined name (line 419: NameError) and by joining integers
\* (line 424: TypeError); either way the call raises before the key is stored.
setAnswerKey(sec, answerKey) ==
    IF Len(answerKey) > 0
    THEN IF /\ Len(sec.studentAnswersGroups) > 0
            /\ Len(answerKey) # answerCount(sec.studentAnswersGroups[1])
         THEN Raise("NameError", sec)
         ELSE IF sec.responsesPerQuestion = 0
              THEN Ok([sec EXCEPT !.responsesPerQuestion = PyMax(answerKey),
                                  !.answerKey = answerKey])
              ELSE IF /\ sec.responsesPerQuestion > 0
                      /\ PyMax(answerKey) > sec.responsesPerQuestion
                   THEN Raise("TypeError", sec)
                   ELSE Ok([sec EXCEPT !.answerKey = answerKey])
    ELSE Ok([sec EXCEPT !.answerKey = answerKey])

\* ExamSection.studentCount: the per-group student counts, in list order
studentCount(sec) ==
    [k \in 1..Len(sec.studentAnswersGroups) |->
        StudentAnswers_studentCount(sec.studentAnswersGroups[k])]

\* ExamSection.studentAnswersGroupIds
studentAnswersGroupIds(sec) ==
    [k \in 1..Len(sec.studentAnswersGroups) |-> sec.studentAnswersGroups[k].groupId]

\* line 450: "studentAnswers.groupId() in self._studentAnswersGroups" looks
\* the id (a str) up in the list of StudentAnswers objects
GroupIdInGroups(groupId, groups) ==
    \E k \in 1..Len(groups) : StudentAnswers_eq_str(groups[k], groupId)

\* ExamSection.addStudentAnswers
addStudentAnswers(sec, studentAnswers) ==
    IF GroupIdInGroups(studentAnswers.groupId, sec.studentAnswersGroups)
    THEN Raise("KeyError", sec)
    ELSE IF answerCount(studentAnswers) > 0
         THEN IF /\ Len(sec.studentAnswersGroups) > 0
                 /\ answerCount(studentAnswers) # answerCount(sec.studentAnswersGroups[1])
              THEN Raise("ValueError", sec)
              ELSE IF sec.responsesPerQuestion = 0
                   THEN Ok([sec EXCEPT
                              !.responsesPerQuestion = maxResponseCount(studentAnswers),
                              !.studentAnswersGroups = Append(@, studentAnswers)])
                   ELSE IF sec.responsesPerQuestion < maxResponseCount(studentAnswers)
                        THEN Raise("ValueError", sec)
                        ELSE Ok([sec EXCEPT
                                   !.studentAnswersGroups = Append(@, studentAnswers)])
         ELSE Ok([sec EXCEPT !.studentAnswersGroups = Append(@, studentAnswers)])

\* ExamSection.reverseAnswerOrderingIfNecessary.  Line 490 iterates over the
\* integer responsesPerQuestion (TypeError) and line 491 calls
\* studentAnswerGroups(), a method the class does not have (AttributeError);
\* so once the option is set every path ends in a raise, nothing remapped.
reverseAnswerOrderingIfNecessary(sec) ==
    IF Options_getitem(sec.options, "is-order-reversed")
    THEN IF sec.responsesPerQuestion <= 0
         THEN Raise("RuntimeError", sec)
         ELSE IF Len(sec.answerKey) > 0
              THEN Raise("TypeError", sec)
              ELSE Raise("AttributeError", sec)
    ELSE Ok(sec)

\* ExamSection.calculateScoresFromAnswerKey: group by group, in place, so the
\* groups before the first failing one keep their new scores
RECURSIVE CalcScoresFrom(_, _)
CalcScoresFrom(sec, k) ==
    IF k > Len(sec.studentAnswersGroups) THEN Ok(sec)
    ELSE LET r == calculateScoresForAnswerKey(sec.studentAnswersGroups[k], sec.answerKey)
         IN  IF r.res # "ok" THEN Raise(r.res, sec)
             ELSE CalcScoresFrom([sec EXCEPT !.studentAnswersGroups[k] = r.obj], k + 1)

calculateScoresFromAnswerKey(sec) ==
    IF Len(sec.answerKey) = 0 THEN Raise("RuntimeError", sec)
    ELSE CalcScoresFrom(sec, 1)

(***************************************************************************)
(* class Exam: [options, examSections]; examSections lists the attached    *)
(* ExamSection objects by identity.  An Exam method returns                *)
(* [res, exam, sections]: it may change the attached sections too.         *)
(***************************************************************************)
SectionIds == 1..MaxSections

ExamOk(e, secs) == [res |-> "ok", exam |-> e, sections |-> secs]
ExamRaise(exc, e, secs) == [res |-> exc, exam |-> e, sections |-> secs]

\* Exam()
Exam_init == [options |-> EmptyOptions, examSections |-> <<>>]

\* Exam.addExamSection
addExamSection(e, secs, sid) ==
    LET examSection == secs[sid]
        merged == [secs EXCEPT ![sid].options = mergeWithOptions(@, e.options)]
        attached == [e EXCEPT !.examSections = Append(@, sid)]
    IN  IF Len(e.examSections) > 0
        THEN LET first == secs[e.examSections[1]]
                 ids == Range(studentAnswersGroupIds(examSection))
                 firstIds == Range(studentAnswersGroupIds(first))
             IN  IF studentCount(examSection) # studentCount(first)
                 THEN ExamRaise("ValueError", e, secs)
                 ELSE IF (ids \ firstIds) \cup (firstIds \ ids) # {}
                      THEN ExamRaise("ValueError", e, secs)
                      ELSE ExamOk(attached, merged)
        ELSE ExamOk(attached, merged)

\* Exam.setOptions: the exam's options are replaced, then merged into every
\* attached section
RECURSIVE MergeIntoSections(_, _, _)
MergeIntoSections(secs, ids, options) ==
    IF ids = <<>> THEN secs
    ELSE MergeIntoSections(
            [secs EXCEPT ![ids[1]].options = mergeWithOptions(@, options)],
            Tail(ids), options)

Exam_setOptions(e, secs, options) ==
    ExamOk([e EXCEPT !.options = Options_init(options)],
           MergeIntoSections(secs, e.examSections, Options_init(options)))

\* ExamSection(fromDict=sectionDict, parentOptions=...): the parent's options
\* are copied, then the dictionary's own options are merged over them
ExamSection_fromDict(sectionDict, parentOptions) ==
    [ExamSection_init EXCEPT
        !.options = IF "options" \in DOMAIN sectionDict
                    THEN mergeWithOptions(Options_init(parentOptions), sectionDict.options)
                    ELSE Options_init(parentOptions)]

\* Exam(fromDict): the options, then one ExamSection per dictionary of
\* 'exam-sections', each handed to addExamSection.  The new sections take
\* the identities 1, 2, ...
RECURSIVE AddSectionsFromDicts(_, _, _, _)
AddSectionsFromDicts(e, secs, dicts, k) ==
    IF k > Len(dicts) THEN ExamOk(e, secs)
    ELSE LET made == [secs EXCEPT ![k] = ExamSection_fromDict(dicts[k], e.options)]
             r == addExamSection(e, made, k)
         IN  IF r.res # "ok" THEN r
             ELSE AddSectionsFromDicts(r.exam, r.sections, dicts, k + 1)

Exam_fromDict(secs, fromDict) ==
    LET e == [Exam_init EXCEPT !.options =
                 IF "options" \in DOMAIN fromDict
                 THEN mergeWithOptions(EmptyOptions, fromDict.options)
                 ELSE EmptyOptions]
    IN  IF "exam-sections" \in DOMAIN fromDict
        THEN AddSectionsFromDicts(e, secs, fromDict["exam-sections"], 1)
        ELSE ExamOk(e, secs)

\* Exam.totalQuestionCount
totalQuestionCount(e, secs) ==
    SumSeq([k \in 1..Len(e.examSections) |-> questionCount(secs[e.examSections[k]])])

\* Exam.reverseAnswerOrderingIfNecessary: section by section, stopping at the
\* first one that raises
RECURSIVE ReverseFrom(_, _, _)
ReverseFrom(e, secs, k) ==
    IF k > Len(e.examSections) THEN ExamOk(e, secs)
    ELSE LET r == reverseAnswerOrderingIfNecessary(secs[e.examSections[k]])
         IN  IF r.res # "ok" THEN ExamRaise(r.res, e, secs)
             ELSE ReverseFrom(e, [secs EXCEPT ![e.examSections[k]] = r.obj], k + 1)

Exam_reverseAnswerOrderingIfNecessary(e, secs) == ReverseFrom(e, secs, 1)

(***************************************************************************)
(* class StatData.  Its SparseStorage tallies are functions whose domain   *)
(* is the set of indices written so far; an index never written reads as   *)
(* the fill-in value 0.  Floating-point values that are quotients of       *)
(* integers are kept as fractions <<numerator, denominator>>.              *)
(***************************************************************************)
\* StatData.CHEK, in hundredths
CHEK == <<20, 20, 10, 7, 5, 4, 4, 4, 4>>

\* len(Exam.answerSymbolByIndex)
AnswerSymbolCount == 27

\* a Python list of n items accepts the indices -n .. n-1
ListIndexOk(idx, n) == idx >= 0 - n /\ idx < n

EmptyStorage == [k \in {} |-> 0]

\* SparseStorage.valueAtIndex
valueAtIndex(storage, key) == IF key \in DOMAIN storage THEN storage[key] ELSE 0

\* SparseStorage.addValueAtIndex ("storage[[...]] += delta")
addValueAtIndex(storage, key, delta) ==
    [k \in DOMAIN storage \cup {key} |->
        IF k = key THEN valueAtIndex(storage, key) + delta ELSE storage[k]]

\* fractions with positive denominators
Frac(n, d) == <<n, d>>
FracAdd(x, y) == <<x[1] * y[2] + y[1] * x[2], x[2] * y[2]>>
FracLess(x, y) == x[1] * y[2] < y[1] * x[2]
FracLeq(x, y) == x[1] * y[2] <= y[1] * x[2]
FracEq(x, y) == x[1] * y[2] = y[1] * x[2]

RECURSIVE GCD(_, _)
GCD(a, b) == IF b = 0 THEN a ELSE GCD(b, a % b)

\* the fraction in lowest terms (a float holds the quotient, not the pair)
FracNorm(x) ==
    LET g == GCD(IF x[1] < 0 THEN 0 - x[1] ELSE x[1], x[2])
    IN  IF g = 0 THEN x ELSE <<x[1] \div g, x[2] \div g>>

FracSum(x, y) == FracNorm(FracAdd(x, y))
FracSub(x, y) == FracNorm(<<x[1] * y[2] - y[1] * x[2], x[2] * y[2]>>)
FracMul(x, y) == FracNorm(<<x[1] * y[1], x[2] * y[2]>>)

\* the unit of the fixed-point values that stand for the floats which are
\* no quotients of integers (square roots and what is derived from them):
\* 1.0 is FixedOne
FixedOne == 10000

\* floor(num * 10^digits / den) for num >= 0, den > 0, by long division
RECURSIVE LongDivision(_, _, _, _)
LongDivision(q, r, den, digits) ==
    IF digits = 0 THEN q
    ELSE LongDivision(q * 10 + (r * 10) \div den, (r * 10) % den, den, digits - 1)

ScaledQuotient(num, den, digits) == LongDivision(num \div den, num % den, den, digits)

\* floor(sqrt(x)), by bisection between lo and hi (lo * lo <= x < hi * hi)
RECURSIVE SqrtBetween(_, _, _)
SqrtBetween(x, lo, hi) ==
    IF hi - lo <= 1 THEN lo
    ELSE LET mid == (lo + hi) \div 2
         IN  IF mid * mid <= x THEN SqrtBetween(x, mid, hi) ELSE SqrtBetween(x, lo, mid)

\* math.sqrt of the fraction x >= 0 (below 20), in units of 1 / FixedOne
FixedSqrt(x) ==
    IF x[1] < 20 * x[2]
    THEN SqrtBetween(ScaledQuotient(x[1], x[2], 8), 0, 46341)
    ELSE 10 * SqrtBetween(ScaledQuotient(x[1], x[2], 6), 0, 46341)

\* a fraction storage's value at an index never written: the fill-in 0.0
FracAt(storage, key) == IF key \in DOMAIN storage THEN storage[key] ELSE Frac(0, 1)

\* SparseStorage.setValueAtIndex ("storage[[...]] = value")
setValueAtIndex(storage, key, newValue) ==
    [k \in DOMAIN storage \cup {key} |-> IF k = key THEN newValue ELSE storage[k]]

(***************************************************************************)
(* class SparseStorage, list by list: _storage is a list of lists, nested  *)
(* _rank deep, whose innermost lists hold the values.  The Python index i  *)
(* of a list is the index i + 1 of the sequence.                           *)
(***************************************************************************)
\* SparseStorage.__init__, for a rank of 1 or more
SparseStorage_init(rank, fillInValue) ==
    [ rank |-> rank, fillInValue |-> fillInValue,
      storage |-> <<>>, maxDimension |-> <<>> ]

\* "for idx in key: focus = focus[idx]": the item the indices lead to, or
\* the IndexError of an index past the end of a list
RECURSIVE FocusAt(_, _)
FocusAt(focus, key) ==
    IF key = <<>> THEN [res |-> "ok", ret |-> focus]
    ELSE IF key[1] < Len(focus) THEN FocusAt(focus[key[1] + 1], Tail(key))
    ELSE [res |-> "IndexError", ret |-> 0]

\* valueAtIndex without its try/except: the walk's IndexError gets out
SparseStorage_valueAtIndexRaising(obj, key) ==
    IF Len(key) # obj.rank THEN [res |-> "IndexError", ret |-> 0, obj |-> obj]
    ELSE LET f == FocusAt(obj.storage, key)
         IN  [res |-> f.res, ret |-> f.ret, obj |-> obj]

\* SparseStorage.valueAtIndex: whatever the walk raises is swallowed
SparseStorage_valueAtIndex(obj, key) ==
    IF Len(key) # obj.rank THEN [res |-> "IndexError", ret |-> 0, obj |-> obj]
    ELSE LET f == FocusAt(obj.storage, key)
         IN  [ res |-> "ok",
               ret |-> IF f.res = "ok" THEN f.ret ELSE obj.fillInValue,
               obj |-> obj ]

\* "for dummy in range(n): focus.append(item)"
Padded(focus, idx, item) ==
    IF idx >= Len(focus)
    THEN focus \o [n \in 1..(idx - Len(focus) + 1) |-> item]
    ELSE focus

\* the body of setValueAtIndex from the list focus on, dimension dimIdx:
\* the list as it is left, and _maxDimension as it is left
RECURSIVE SetFrom(_, _, _, _, _, _)
SetFrom(focus, maxDimension, dimIdx, key, newValue, fillInValue) ==
    LET idx == key[1]
        isLast == Len(key) = 1
        grows == idx >= Len(focus)
        appended == IF dimIdx >= Len(maxDimension) /\ (grows \/ ~isLast)
                    THEN Append(maxDimension, 0) ELSE maxDimension
        dims == IF grows /\ idx + 1 > appended[dimIdx + 1]
                THEN [appended EXCEPT ![dimIdx + 1] = idx + 1] ELSE appended
    IN  IF isLast
        THEN [ focus |-> [Padded(focus, idx, fillInValue) EXCEPT ![idx + 1] = newValue],
               maxDimension |-> dims ]
        ELSE LET lists == Padded(focus, idx, <<>>)
                 below == SetFrom(lists[idx + 1], dims, dimIdx + 1, Tail(key),
                                  newValue, fillInValue)
             IN  [ focus |-> [lists EXCEPT ![idx + 1] = below.focus],
                   maxDimension |-> below.maxDimension ]

\* setValueAtIndex padding the innermost list with the new value
SparseStorage_setValueAtIndexSpreading(obj, key, newValue) ==
    IF Len(key) # obj.rank THEN Raise("IndexError", obj)
    ELSE LET set == SetFrom(obj.storage, obj.maxDimension, 0, key, newValue,
                            newValue)
         IN  Ok([obj EXCEPT !.storage = set.focus,
                            !.maxDimension = set.maxDimension])

\* SparseStorage.setValueAtIndex
SparseStorage_setValueAtIndex(obj, key, newValue) ==
    IF Len(key) # obj.rank THEN Raise("IndexError", obj)
    ELSE LET set == SetFrom(obj.storage, obj.maxDimension, 0, key, newValue,
                            obj.fillInValue)
         IN  Ok([obj EXCEPT !.storage = set.focus,
                            !.maxDimension = set.maxDimension])

\* addValueAtIndex giving up quietly when the read fails
SparseStorage_addValueAtIndexQuiet(obj, key, deltaValue) ==
    LET old == SparseStorage_valueAtIndex(obj, key)
    IN  IF old.res # "ok" THEN Ok(obj)
        ELSE SparseStorage_setValueAtIndex(obj, key, old.ret + deltaValue)

\* SparseStorage.addValueAtIndex
SparseStorage_addValueAtIndex(obj, key, deltaValue) ==
    LET old == SparseStorage_valueAtIndex(obj, key)
    IN  IF old.res # "ok" THEN Raise(old.res, obj)
        ELSE SparseStorage_setValueAtIndex(obj, key, old.ret + deltaValue)

\* SparseStorage.scaleValueAtIndex
SparseStorage_scaleValueAtIndex(obj, key, multiplier) ==
    LET old == SparseStorage_valueAtIndex(obj, key)
    IN  IF old.res # "ok" THEN Raise(old.res, obj)
        ELSE SparseStorage_setValueAtIndex(obj, key, old.ret * multiplier)

\* no SparseStorage under study
NoStorage == [obj |-> SparseStorage_init(1, 0), written |-> EmptyStorage, writes |-> 0]

\* StatData.__init__, before any processExam
StatData_init ==
    [ pc |-> "new", exc |-> "none",
      sectionIdx |-> 0, l |-> 0, a |-> 0, i |-> 0,
      NNXYZ |-> 0, GITEMN |-> 0, VAR |-> Frac(0, 1),
      SBIS |-> 0, SDI |-> Frac(0, 1),
      IDO |-> 0, IDTW |-> 0, IDTH |-> 0, IDFO |-> 0, IDFI |-> 0,
      IDVP |-> 0, IDG |-> 0, IDP |-> 0, IDVG |-> 0, IDVVG |-> 0, IDEX |-> 0,
      CNTKEY |-> EmptyStorage, PROSUM |-> EmptyStorage, CNTCHO |-> EmptyStorage,
      BIS |-> EmptyStorage, PBIS |-> EmptyStorage, T |-> EmptyStorage,
      DIFI |-> EmptyStorage, IBI |-> EmptyStorage, IDIST |-> EmptyStorage,
      ICHO |-> 0, JCHO |-> 0, ITN |-> 0, ITEMN |-> 0, ISUM |-> 0, ISUMSQ |-> 0,
      KOUNT |-> EmptyStorage, ICOUNT |-> EmptyStorage, ITC |-> EmptyStorage,
      ITIC |-> EmptyStorage, ITAB |-> EmptyStorage, JTOT |-> EmptyStorage,
      KSUM |-> EmptyStorage,
      FVAR |-> Frac(0, 1), KCHO |-> 0, KTN |-> 0, MCOPY |-> 0,
      PCTKEY |-> EmptyStorage,
      messages |-> <<>>,
      sectionSummary |-> EmptyStorage,   \* ExamSection.statisticalSummary, by section
      examSummary |-> EmptyStorage ]     \* Exam.statisticalSummary

\* the loop of processExam walking the section list from its end
CurrentSectionFromEnd ==
    sections[exam.examSections[Len(exam.examSections) + 1 - stat.sectionIdx]]

\* the section processExam's loop is at
CurrentSection == sections[exam.examSections[stat.sectionIdx]]

StatRaise(st, exc) == [st EXCEPT !.pc = "raised", !.exc = exc]

\* ExamSection.totalStudentCount: reduce() without an initial value
totalStudentCount(sec) == SumSeq(studentCount(sec))

\* lines 687-723: the head of processExamSection
SectionHead(st, e, sec) ==
    IF Len(sec.studentAnswersGroups) = 0
    THEN StatRaise(st, "TypeError")     \* reduce() of an empty list
    ELSE [st EXCEPT
            !.ICHO = sec.responsesPerQuestion,
            !.JCHO = sec.responsesPerQuestion + 1,
            !.ITN = totalStudentCount(sec),
            !.ITEMN = questionCount(sec),
            !.GITEMN = @ + questionCount(sec),
            !.ISUM = 0, !.ISUMSQ = 0,
            !.KOUNT = EmptyStorage, !.ICOUNT = EmptyStorage,
            !.ITC = EmptyStorage, !.ITIC = EmptyStorage,
            !.ITAB = EmptyStorage, !.JTOT = EmptyStorage, !.KSUM = EmptyStorage,
            !.IDIST = EmptyStorage, !.IBI = EmptyStorage,
            !.l = 0, !.a = 0, !.i = 0,
            !.pc = "groups"]

\* the group loop counting every group as one student
GroupHeadCountingGroups(st, sec) ==
    IF st.l < Len(sec.studentAnswersGroups)
    THEN LET answerGroup == sec.studentAnswersGroups[st.l + 1]
             scores == answerGroup.scores
         IN  [st EXCEPT
                !.l = @ + 1,
                !.KOUNT = addValueAtIndex(@, <<st.l + 1>>, 1),
                !.ISUM = @ + SumSeq(scores),
                !.ISUMSQ = @ + SumSeq([k \in 1..Len(scores) |-> scores[k] * scores[k]]),
                !.a = 0,
                !.pc = "students"]
    ELSE [st EXCEPT !.pc = "summary"]

\* lines 724-735: "while l < groupsCount": the next group's totals, or the
\* end of the tally
GroupHead(st, sec) ==
    IF st.l < Len(sec.studentAnswersGroups)
    THEN LET answerGroup == sec.studentAnswersGroups[st.l + 1]
             scores == answerGroup.scores
         IN  [st EXCEPT
                !.l = @ + 1,
                !.KOUNT = addValueAtIndex(@, <<st.l + 1>>,
                                          StudentAnswers_studentCount(answerGroup)),
                !.ISUM = @ + SumSeq(scores),
                !.ISUMSQ = @ + SumSeq([k \in 1..Len(scores) |-> scores[k] * scores[k]]),
                !.a = 0,
                !.pc = "students"]
    ELSE [st EXCEPT !.pc = "summary"]

\* lines 736-740: "while a < len(answers)": the next student, or the end of
\* the group
StudentHead(st, sec) ==
    LET answerGroup == sec.studentAnswersGroups[st.l]
    IN  IF st.a < Len(answerGroup.answers)
        THEN IF st.a + 1 > Len(answerGroup.scores)
             THEN StatRaise(st, "IndexError")       \* scores[a]
             ELSE [st EXCEPT !.a = @ + 1, !.i = 0, !.pc = "questions"]
        ELSE [st EXCEPT !.pc = "groups"]

\* the two warnings of the tally
NegativeMessage(i, l) == [text |-> "READ AS NEGATIVE", question |-> i + 1, group |-> l]
GreaterMessage(i, l) == [text |-> "READ AS GREATER THAN", question |-> i + 1, group |-> l]

\* the index the tally loop goes on with after a warning's "continue"
IndexAfterWarning(i) == i

\* lines 741-762: one pass of "while i < len(answerKey)".  The two warning
\* branches end in "continue", which skips the "i += 1" of line 762.
QuestionStep(st, sec) ==
    LET answerKey == sec.answerKey
        answerGroup == sec.studentAnswersGroups[st.l]
        studentAnswers == answerGroup.answers[st.a]
        score == answerGroup.scores[st.a]
        i == st.i
    IN  IF i < Len(answerKey)
        THEN IF i + 1 > Len(studentAnswers)
             THEN StatRaise(st, "IndexError")       \* studentAnswers[i]
             ELSE
             LET counted ==
                    IF answerKey[i + 1] = studentAnswers[i + 1]
                    THEN [st EXCEPT !.ICOUNT = addValueAtIndex(@, <<i + 1>>, 1),
                                    !.ITC = addValueAtIndex(@, <<i + 1>>, score)]
                    ELSE [st EXCEPT !.ITIC = addValueAtIndex(@, <<i + 1>>, score)]
                 j == studentAnswers[i + 1] + 1
             IN  IF studentAnswers[i + 1] < 0
                 THEN [counted EXCEPT
                        !.messages = Append(@, NegativeMessage(i, st.l)),
                        !.i = IndexAfterWarning(i)]
                 ELSE IF studentAnswers[i + 1] > st.ICHO
                 THEN [counted EXCEPT
                        !.messages = Append(@, GreaterMessage(i, st.l)),
                        !.i = IndexAfterWarning(i)]
                 ELSE [counted EXCEPT
                        !.ITAB = addValueAtIndex(@, <<i + 1, j, st.l>>, 1),
                        !.JTOT = addValueAtIndex(@, <<i + 1, j>>, 1),
                        !.KSUM = addValueAtIndex(@, <<i + 1, j>>, score),
                        !.i = i + 1]
        ELSE [st EXCEPT !.pc = "students"]

\* the buckets cut at the fifths 0.2, 0.4, 0.6, 0.8 instead
PassingBucketAtFifths(difi) ==
    IF FracLeq(difi, Frac(20, 100)) THEN 1
    ELSE IF FracLeq(difi, Frac(40, 100)) THEN 2
    ELSE IF FracLeq(difi, Frac(60, 100)) THEN 3
    ELSE IF FracLeq(difi, Frac(80, 100)) THEN 4
    ELSE IF FracLeq(difi, Frac(1, 1)) THEN 5
    ELSE 6

\* the last bucket closed with "< 1.0" instead of "<= 1.0"
PassingBucketBelowOne(difi) ==
    IF FracLeq(difi, Frac(19, 100)) THEN 1
    ELSE IF FracLeq(difi, Frac(39, 100)) THEN 2
    ELSE IF FracLeq(difi, Frac(59, 100)) THEN 3
    ELSE IF FracLeq(difi, Frac(79, 100)) THEN 4
    ELSE IF FracLess(difi, Frac(1, 1)) THEN 5
    ELSE 6

\* lines 774-787: the percentage-passing bucket of a difficulty index
\* (1..5), or 6 for the "greater than one" warning
PassingBucket(difi) ==
    IF FracLeq(difi, Frac(19, 100)) THEN 1
    ELSE IF FracLeq(difi, Frac(39, 100)) THEN 2
    ELSE IF FracLeq(difi, Frac(59, 100)) THEN 3
    ELSE IF FracLeq(difi, Frac(79, 100)) THEN 4
    ELSE IF FracLeq(difi, Frac(1, 1)) THEN 5
    ELSE 6

DifficultyMessage(i) ==
    [text |-> "DIFFICULTY IS GREATER THAN ONE OR LESS THAN ZERO", question |-> i, group |-> 0]

\* lines 765-787, for N > 0: DIFI per item, and the buckets counted
RECURSIVE Difficulties(_, _)
Difficulties(st, i) ==
    IF i > st.ITEMN THEN st
    ELSE LET b == PassingBucket(Frac(valueAtIndex(st.ICOUNT, <<i>>), st.ITN))
         IN  Difficulties(
                [st EXCEPT
                    !.DIFI = setValueAtIndex(@, <<i>>,
                                FracNorm(Frac(valueAtIndex(st.ICOUNT, <<i>>), st.ITN))),
                    !.IDO = IF b = 1 THEN @ + 1 ELSE @,
                    !.IDTW = IF b = 2 THEN @ + 1 ELSE @,
                    !.IDTH = IF b = 3 THEN @ + 1 ELSE @,
                    !.IDFO = IF b = 4 THEN @ + 1 ELSE @,
                    !.IDFI = IF b = 5 THEN @ + 1 ELSE @,
                    !.messages = IF b = 6 THEN Append(@, DifficultyMessage(i)) ELSE @],
                i + 1)

\* doLine570: the item has no correlation values
doLine570(st, i) ==
    [st EXCEPT !.BIS = setValueAtIndex(@, <<i>>, 0),
               !.PBIS = setValueAtIndex(@, <<i>>, 0),
               !.T = setValueAtIndex(@, <<i>>, 0)]

\* doLine690: the sums of the exam's mean difficulty and mean biserial
doLine690(st, i) ==
    [st EXCEPT !.SDI = FracSum(@, FracAt(st.DIFI, <<i>>)),
               !.SBIS = @ + valueAtIndex(st.BIS, <<i>>)]

\* doLine640: the biserial buckets above 0.11
doLine640(st, i) ==
    LET bis == valueAtIndex(st.BIS, <<i>>) * 100
    IN  doLine690(
            IF bis <= 31 * FixedOne
            THEN [st EXCEPT !.IDP = @ + 1, !.IBI = setValueAtIndex(@, <<i>>, 2)]
            ELSE IF bis <= 51 * FixedOne
            THEN [st EXCEPT !.IDG = @ + 1, !.IBI = setValueAtIndex(@, <<i>>, 3)]
            ELSE IF bis <= 71 * FixedOne
            THEN [st EXCEPT !.IDVG = @ + 1, !.IBI = setValueAtIndex(@, <<i>>, 4)]
            ELSE IF bis <= 91 * FixedOne
            THEN [st EXCEPT !.IDVVG = @ + 1, !.IBI = setValueAtIndex(@, <<i>>, 5)]
            ELSE [st EXCEPT !.IDEX = @ + 1, !.IBI = setValueAtIndex(@, <<i>>, 5)],
            i)

\* doLine630: the lowest biserial bucket, or on to doLine640
doLine630(st, i) ==
    IF valueAtIndex(st.BIS, <<i>>) * 100 > 11 * FixedOne
    THEN doLine640(st, i)
    ELSE doLine690([st EXCEPT !.IDVP = @ + 1, !.IBI = setValueAtIndex(@, <<i>>, 1)], i)

\* doLine632: no score deviation, no correlation
doLine632(st, i) == doLine630(doLine570(st, i), i)

\* doLine610: the ordinate Y of the normal curve at the given area, from the
\* approximation's value at each area a section of up to 8 students has
doLine610(area) ==
    CASE FracEq(area, Frac(4, 7)) -> 3927
      [] FracEq(area, Frac(3, 5)) -> 3868
      [] FracEq(area, Frac(5, 8)) -> 3799
      [] FracEq(area, Frac(2, 3)) -> 3650
      [] FracEq(area, Frac(5, 7)) -> 3427
      [] FracEq(area, Frac(3, 4)) -> 3221
      [] FracEq(area, Frac(4, 5)) -> 2872
      [] FracEq(area, Frac(5, 6)) -> 2599
      [] FracEq(area, Frac(6, 7)) -> 2382
      [] FracEq(area, Frac(7, 8)) -> 2207

\* the ordinate of the median for every item
OrdinateAtMedian(difi) == 3989

\* Y[[i]] as lines 830-843 set it for 0 < DIFI < 1
OrdinateOf(difi) ==
    IF FracLess(difi, Frac(1, 2)) THEN doLine610(FracSub(Frac(1, 1), difi))
    ELSE IF FracLess(Frac(1, 2), difi) THEN doLine610(difi)
    ELSE 3989

\* doLine620, for an item with 0 < ICOUNT < ITN: the item variance, and BIS,
\* PBIS and T from the mean scores of the right and the wrong answers
doLine620(st, i) ==
    LET N == st.ITN
        c == valueAtIndex(st.ICOUNT, <<i>>)
        DIFI == FracAt(st.DIFI, <<i>>)
        Q == FracSub(Frac(1, 1), DIFI)
        pq == FracMul(DIFI, Q)
        FMNCO == FracNorm(Frac(valueAtIndex(st.ITC, <<i>>), c))
        FMNIC == FracNorm(Frac(valueAtIndex(st.ITIC, <<i>>), N - c))
        diff == FracSub(FMNCO, FMNIC)
        sign == IF diff[1] < 0 THEN 0 - 1 ELSE 1
        \* (BIS * Y) squared and PBIS squared, exactly
        bisY2 == FracMul(FracMul(FracMul(diff, diff), FracMul(pq, pq)),
                         Frac(st.FVAR[2], st.FVAR[1]))
        pbis2 == FracMul(bisY2, Frac(pq[2], pq[1]))
        t2 == FracMul(pbis2, Frac((N - 2) * pbis2[2], pbis2[2] - pbis2[1]))
        varied == [st EXCEPT !.VAR = FracSum(@, pq)]
    IN  IF st.FVAR[1] = 0
        THEN doLine632(varied, i)
        ELSE doLine630(
                [varied EXCEPT
                    !.BIS = setValueAtIndex(@, <<i>>,
                                sign * ((FixedSqrt(bisY2) * FixedOne) \div OrdinateOf(DIFI))),
                    !.PBIS = setValueAtIndex(@, <<i>>, sign * FixedSqrt(pbis2)),
                    !.T = setValueAtIndex(@, <<i>>, sign * FixedSqrt(t2))],
                i)

\* lines 819-843: the correlation values of every item.  An item nobody or
\* everybody answered right takes doLine570, and so adds nothing to VAR, SDI
\* and SBIS and is counted in no biserial bucket.
RECURSIVE ItemVariances(_, _)
ItemVariances(st, i) ==
    IF i > st.ITEMN THEN st
    ELSE LET c == valueAtIndex(st.ICOUNT, <<i>>)
         IN  ItemVariances(
                IF c = 0 \/ c = st.ITN THEN doLine570(st, i) ELSE doLine620(st, i),
                i + 1)

\* list[idx] of Python, for an index the list accepts
PyIndex(list, idx) == IF idx >= 0 THEN list[idx + 1] ELSE list[Len(list) + idx + 1]

\* PROP[[i, j]], line 771: the share of the students who chose j - 1
PROP(st, i, j) == FracNorm(Frac(valueAtIndex(st.JTOT, <<i, j>>), st.ITN))

\* CMEAN[[i, j]], line 770: the mean score of the students who chose j - 1
CMEAN(st, i, j) ==
    IF valueAtIndex(st.JTOT, <<i, j>>) <= 0 THEN Frac(0, 1)
    ELSE FracNorm(Frac(valueAtIndex(st.KSUM, <<i, j>>), valueAtIndex(st.JTOT, <<i, j>>)))

\* FMEAN, line 804
FMEAN(st) == FracNorm(Frac(st.ISUM, st.ITN))

\* lines 809-817: IDIST[[i, j]], 2 for a questionable choice and 1 otherwise
\* (j = 1 is "omitted", j = answerKey[i - 1] + 1 is the keyed choice)
IDISTOf(st, sec, i, j) ==
    LET k == sec.answerKey[i] + 1
        byShare ==
            IF j = k
            THEN IF \/ FracLess(PROP(st, i, k), Frac(20, 100))
                    \/ FracLess(Frac(80, 100), PROP(st, i, k))
                 THEN 2 ELSE 1
            ELSE IF FracLess(PROP(st, i, j), Frac(PyIndex(CHEK, st.ICHO), 100))
                 THEN 2 ELSE 1
    IN  IF /\ byShare # 2
           /\ \/ FracLess(CMEAN(st, i, k), CMEAN(st, i, j))
              \/ FracLess(CMEAN(st, i, k), FMEAN(st))
        THEN 2
        ELSE byShare

Distractors(st, sec) ==
    [st EXCEPT !.IDIST =
        [key \in {<<i, j>> : i \in 1..st.ITEMN, j \in 1..st.JCHO} |->
            IDISTOf(st, sec, key[1], key[2])]]

\* lines 846-851: the keyed and chosen counts of the exam's choices
RECURSIVE ChoiceCounts(_, _, _)
ChoiceCounts(st, sec, i) ==
    IF i > st.ITEMN THEN st
    ELSE LET KEY == sec.answerKey[i]
         IN  ChoiceCounts(
                [st EXCEPT
                    !.CNTKEY = addValueAtIndex(@, <<KEY>>, 1),
                    !.PROSUM = setValueAtIndex(@, <<KEY>>,
                                  FracSum(FracAt(@, <<KEY>>), PROP(st, i, KEY + 1))),
                    !.CNTCHO = [k \in DOMAIN @ \cup {<<j - 1>> : j \in 2..st.JCHO} |->
                                  valueAtIndex(@, k) +
                                  (IF k[1] + 1 \in 2..st.JCHO
                                   THEN valueAtIndex(st.JTOT, <<i, k[1] + 1>>) ELSE 0)]],
                sec, i + 1)

\* lines 855-923: the summary of question i.  Choices are listed by their
\* index j - 1 (1..ICHO); "omitted" is never reported questionable.
QuestionSummary(st, sec, i) ==
    [ omitted |-> valueAtIndex(st.JTOT, <<i, 1>>),
      total |-> SumSeq([j \in 1..st.JCHO |-> valueAtIndex(st.JTOT, <<i, j>>)]),
      countByGroup |-> [L \in 1..Len(sec.studentAnswersGroups) |->
                            valueAtIndex(st.KOUNT, <<L>>)],
      byAnswer |-> [j \in 1..(st.JCHO - 1) |-> valueAtIndex(st.JTOT, <<i, j + 1>>)],
      isCorrectAnswer |-> [j \in 1..(st.JCHO - 1) |-> sec.answerKey[i] + 1 = j + 1],
      chosenByRatio |-> [j \in 1..(st.JCHO - 1) |-> PROP(st, i, j + 1)],
      meanScore |-> [j \in 1..(st.JCHO - 1) |-> CMEAN(st, i, j + 1)],
      isQuestionable |-> [j \in 1..(st.JCHO - 1) |-> valueAtIndex(st.IDIST, <<i, j + 1>>) = 2],
      biserialCorrelation |-> valueAtIndex(st.BIS, <<i>>),
      pointwiseBiserialCorrelation |-> valueAtIndex(st.PBIS, <<i>>),
      tValue |-> valueAtIndex(st.T, <<i>>) ]

\* lines 764-927: the rest of processExamSection, after the tally.  The
\* places that can raise, in the order the code reaches them:
\*   771/773  x / FITN with no student            ZeroDivisionError
\*   804      FSUM / FITN with no student         ZeroDivisionError
\*   805      ... / (FITN * (FITN - 1.0)), N = 1  ZeroDivisionError
\*   811      CHEK[ICHO] outside the 9 thresholds IndexError
\*   915      answerSymbolByIndex[j - 1]          IndexError
\* The buckets are counted before the first of them is reached.
SectionSummary(st, sec, sid) ==
    LET N == st.ITN
        Q == st.ITEMN
    IN  IF N = 0
        THEN StatRaise(st, "ZeroDivisionError")
        ELSE
        LET bucketed == Difficulties(st, 1)
        IN  IF N = 1
            THEN StatRaise(bucketed, "ZeroDivisionError")
            ELSE
            LET withVar == [bucketed EXCEPT
                              !.FVAR = Frac(N * st.ISUMSQ - st.ISUM * st.ISUM, N * (N - 1))]
            IN  IF Q >= 1 /\ st.JCHO >= 1 /\ ~ListIndexOk(st.ICHO, Len(CHEK))
                THEN StatRaise(withVar, "IndexError")
                ELSE
                LET items == ChoiceCounts(ItemVariances(Distractors(withVar, sec), 1), sec, 1)
                    carried == [items EXCEPT
                                  !.NNXYZ = @ + Q,
                                  !.KTN = N,
                                  !.KCHO = st.ICHO,
                                  !.MCOPY = Options_getitem(sec.options, "number-of-copies")]
                IN  IF Q >= 1 /\ st.JCHO >= 2 /\ ~ListIndexOk(st.JCHO - 1, AnswerSymbolCount)
                    THEN StatRaise(carried, "IndexError")
                    ELSE [carried EXCEPT
                            !.sectionSummary =
                                [k \in DOMAIN @ \cup {sid} |->
                                    IF k = sid
                                    THEN [i \in 1..Q |-> QuestionSummary(items, sec, i)]
                                    ELSE @[k]],
                            !.pc = "section",
                            !.sectionIdx = @ + 1]

\* line 1013: 1 - REL is negative, for GITEMN >= 2 and FVAR > 0, exactly
\* when FVAR > GITEMN * VAR
ReliabilityAboveOne(st) ==
    FracLess(Frac(st.GITEMN * st.VAR[1], st.VAR[2]), st.FVAR)

\* lines 1004-1057: the aggregate pass of processExam.  It can raise at
\*   1005  SDI / GITEMN with no question            ZeroDivisionError
\*   1012  GITEMN / (GITEMN - 1.0), one question    ZeroDivisionError
\*   1013  sqrt(1.0 - REL) with REL > 1             ValueError
\*   1054  PCTKEY.maxDimension()[0], PCTKEY empty   IndexError
ExamSummary(st) ==
    IF st.GITEMN = 0
    THEN StatRaise(st, "ZeroDivisionError")
    ELSE IF st.FVAR[1] # 0 /\ st.GITEMN = 1
    THEN StatRaise(st, "ZeroDivisionError")
    ELSE IF st.FVAR[1] # 0 /\ ReliabilityAboveOne(st)
    THEN StatRaise(st, "ValueError")
    ELSE
    LET FMEDI == FracNorm(Frac(st.SDI[1], st.SDI[2] * st.GITEMN))
        FMEBIS == st.SBIS \div st.GITEMN
        REL == IF st.FVAR[1] = 0 THEN Frac(0, 1)
               ELSE FracMul(Frac(st.GITEMN, st.GITEMN - 1),
                            FracMul(FracSub(st.FVAR, st.VAR), Frac(st.FVAR[2], st.FVAR[1])))
        SEMEAS == IF st.FVAR[1] = 0 THEN 0
                  ELSE FixedSqrt(FracMul(st.FVAR, FracSub(Frac(1, 1), REL)))
        keyed == [st EXCEPT !.PCTKEY =
                    [k \in DOMAIN @ \cup {<<KEY>> : KEY \in 1..st.KCHO} |->
                        IF k[1] \in 1..st.KCHO
                        THEN FracNorm(Frac(valueAtIndex(st.CNTKEY, k), st.GITEMN))
                        ELSE @[k]]]
    IN  IF DOMAIN keyed.PCTKEY = {}
        THEN StatRaise(keyed, "IndexError")
        ELSE [keyed EXCEPT
                !.examSummary =
                    [k \in {"mean-difficulty", "total-biserial-correlation",
                            "kuder-richardson-20-reliability",
                            "std-error-of-measurement-kr-20",
                            "score-mean", "score-variance",
                            "total-students", "total-questions",
                            "distribution-by-passing",
                            "distribution-by-biserial-correlation",
                            "breakdown-by-choice"} |->
                        CASE k = "mean-difficulty" -> FMEDI
                          [] k = "total-biserial-correlation" -> FMEBIS
                          [] k = "kuder-richardson-20-reliability" -> REL
                          [] k = "std-error-of-measurement-kr-20" -> SEMEAS
                          [] k = "score-mean" -> FMEAN(st)
                          [] k = "score-variance" -> st.FVAR
                          [] k = "total-students" -> st.KTN
                          [] k = "total-questions" -> st.GITEMN
                          [] k = "distribution-by-passing" ->
                                <<st.IDO, st.IDTW, st.IDTH, st.IDFO, st.IDFI>>
                          [] k = "distribution-by-biserial-correlation" ->
                                <<st.IDVP, st.IDP, st.IDG, st.IDVG, st.IDVVG, st.IDEX>>
                          [] k = "breakdown-by-choice" ->
                                [c \in 1..st.KCHO |->
                                    [ pctKeyed |-> FracNorm(Frac(valueAtIndex(st.CNTKEY, <<c>>),
                                                                 st.GITEMN)),
                                      pctChosen |-> FracNorm(Frac(valueAtIndex(st.CNTCHO, <<c>>),
                                                                  st.ITN * st.GITEMN)),
                                      avgDifficulty |->
                                          IF valueAtIndex(st.CNTKEY, <<c>>) = 0 THEN Frac(0, 1)
                                          ELSE FracNorm(Frac(FracAt(st.PROSUM, <<c>>)[1],
                                                  FracAt(st.PROSUM, <<c>>)[2] *
                                                  valueAtIndex(st.CNTKEY, <<c>>))) ]]],
                !.pc = "done"]

\* REL is exactly 1 (FVAR = GITEMN * VAR): the rounding of the float
\* quotients of line 1012 decides whether 1.0 - REL is 0.0 or just below it
ReliabilityIsOne(st) ==
    /\ st.FVAR[1] # 0
    /\ st.GITEMN > 1
    /\ FracEq(Frac(st.GITEMN * st.VAR[1], st.VAR[2]), st.FVAR)

\* an aggregate pass that counts the last section's questions once more
AggregateOutcomesCounting(st) ==
    LET counted == [st EXCEPT !.GITEMN = @ + st.ITEMN]
    IN  {ExamSummary(counted)} \cup
        (IF ReliabilityIsOne(counted) THEN {StatRaise(counted, "ValueError")} ELSE {})

\* the states the aggregate pass can end in
AggregateOutcomes(st) ==
    {ExamSummary(st)} \cup
    (IF ReliabilityIsOne(st) THEN {StatRaise(st, "ValueError")} ELSE {})

\* lines 1059-1063: the exam's number-of-copies after a completed pass
CopiesFixup(e, st) ==
    LET first == IF st.MCOPY > 1
                 THEN mergeWithOptions(e.options, [k \in {"number-of-copies"} |-> 3])
                 ELSE e.options
    IN  [e EXCEPT !.options =
            IF Options_getitem(first, "number-of-copies") = 0
            THEN mergeWithOptions(first, [k \in {"number-of-copies"} |-> 1])
            ELSE first]

(***************************************************************************)
(* Inputs of the calls.                                                    *)
(***************************************************************************)
GroupIds == {"1", "2"}

\* a response: 0 (omitted) or a choice
AnswerValues == 0..MaxChoice

\* the rows of one group: up to MaxStudents answer vectors of one length
AnswerRows ==
    UNION {[1..n -> [1..q -> AnswerValues]] : n \in 0..MaxStudents, q \in 1..MaxQuestions}

\* groups as a reader builds them: an id, then appendStudentData per student
GroupInputs ==
    {StudentAnswers_filled(StudentAnswers_init(id), rows) :
        id \in GroupIds, rows \in AnswerRows}

\* groups of up to MaxGroupStudents students, as a reader builds them
ScoredGroupInputs ==
    {StudentAnswers_filled(StudentAnswers_init("1"), rows) :
        rows \in UNION {[1..n -> [1..q -> AnswerValues]] :
                            n \in 0..MaxGroupStudents, q \in 1..MaxQuestions}}

\* groups that differ in id and student count only (one question, answer 1)
PlainGroupInputs ==
    {StudentAnswers_filled(StudentAnswers_init(id), [a \in 1..n |-> <<1>>]) :
        id \in GroupIds, n \in 0..MaxStudents}

KeyInputs == SeqsOf(1..MaxChoice, 0, MaxQuestions)

\* 0 is the constructor's "not set yet"; a caller sets a positive count
RpqInputs == 1..MaxChoice

OptionInputs ==
    { EmptyOptions,
      [k \in {"number-of-copies", "should-eval-full-exam-only"} |->
          IF k = "number-of-copies" THEN 2 ELSE TRUE],
      [k \in {"number-of-copies", "is-order-reversed"} |->
          IF k = "number-of-copies" THEN 3 ELSE TRUE] }

\* the dictionaries of a document's sections: with or without 'options'
SectionDictInputs ==
    {[k \in {} |-> 0]} \cup {[options |-> o] : o \in OptionInputs}

ExamDictInputs ==
    {[k \in {"options", "exam-sections"} |->
        IF k = "options" THEN o ELSE ds] :
        o \in OptionInputs, ds \in SeqsOf(SectionDictInputs, 1, MaxSections)}

\* r.obj after the next call, unless a call before it raised
Then(r, Call(_)) == IF r.res = "ok" THEN Call(r.obj) ELSE r

RECURSIVE AddGroups(_, _)
AddGroups(r, groups) ==
    IF groups = <<>> THEN r
    ELSE AddGroups(Then(r, LAMBDA sec : addStudentAnswers(sec, groups[1])), Tail(groups))

\* a section as a reader builds it: the answer key, the groups "1", "2", ...
\* (rows[k] holding the answer vectors of group k), responsesPerQuestion,
\* and the scores from the key
BuildSection(key, rows, r) ==
    Then(Then(AddGroups(setAnswerKey(ExamSection_init, key),
                        [k \in 1..Len(rows) |->
                            StudentAnswers_filled(
                                StudentAnswers_init(IF k = 1 THEN "1" ELSE "2"), rows[k])]),
              LAMBDA sec : setResponsesPerQuestion(sec, r)),
         LAMBDA sec : calculateScoresFromAnswerKey(sec))

\* the rows of the groups of one section: every group holds a student, and
\* all vectors have q answers drawn from values
GroupRows(q, values) ==
    UNION {[1..g -> UNION {[1..n -> [1..q -> values]] : n \in 1..MaxStudents}] :
            g \in 1..MaxGroups}

\* responsesPerQuestion as set for the analysis: 1, the largest choice
\* drawn, and the first count beyond the CHEK table
StatRpqInputs == {1, MaxChoice, Len(CHEK)}

\* the sections the statistics are run on; a response may be -1 (malformed)
BuiltSections(q) ==
    {BuildSection(key, rows, rpq) :
        key \in [1..q -> 1..MaxChoice],
        rows \in GroupRows(q, {-1} \cup AnswerValues),
        rpq \in StatRpqInputs}

StatSectionInputs ==
    {b.obj : b \in {r \in UNION {BuiltSections(q) : q \in 1..MaxQuestions} :
                        r.res = "ok"}}

\* one-question sections with every response a choice
ShortSectionInputs ==
    {sec \in StatSectionInputs :
        /\ Len(sec.answerKey) = 1
        /\ sec.responsesPerQuestion = MaxChoice
        /\ \A g \in 1..Len(sec.studentAnswersGroups) :
           \A a \in 1..Len(sec.studentAnswersGroups[g].answers) :
              sec.studentAnswersGroups[g].answers[a][1] >= 1}

\* an exam as a reader builds it: its options, then addExamSection per section
RECURSIVE AttachSections(_, _)
AttachSections(r, k) ==
    IF k > MaxSections \/ r.res # "ok" THEN r
    ELSE IF r.sections[k] = ExamSection_init THEN r
    ELSE AttachSections(addExamSection(r.exam, r.sections, k), k + 1)

BuildExam(options, secs) ==
    AttachSections(Exam_setOptions(Exam_init, secs, options), 1)

StatExamInputs ==
    {b \in ( {BuildExam(o, [s \in SectionIds |-> IF s = 1 THEN sec ELSE ExamSection_init]) :
                o \in {EmptyOptions, [k \in {"number-of-copies"} |-> 2]},
                sec \in StatSectionInputs}
             \cup
             {BuildExam(EmptyOptions, secs) : secs \in [SectionIds -> ShortSectionInputs]} )
        : b.res = "ok"}

\* base ** n
RECURSIVE Power(_, _)
Power(base, n) == IF n = 0 THEN 1 ELSE base * Power(base, n - 1)

\* an answer vector of q choices from its number in 0 .. MaxChoice**q - 1
RowOfCode(code, q) == [i \in 1..q |-> ((code \div Power(MaxChoice, i - 1)) % MaxChoice) + 1]

\* the answer vectors of n students, every response a choice; the students
\* are listed in the order of their vectors' numbers
RespondentRows(n, q) ==
    {[a \in 1..n |-> RowOfCode(codes[a], q)] :
        codes \in {s \in [1..n -> 0..(Power(MaxChoice, q) - 1)] :
                        \A a \in 1..(n - 1) : s[a] <= s[a + 1]}}

\* a section as ExamSection.__init__ builds it from a dictionary:
\* responsesPerQuestion, the answer key, then the groups; and the scores
\* from the key
BuildKeyedSection(key, rows, r) ==
    Then(AddGroups(Then(setResponsesPerQuestion(ExamSection_init, r),
                        LAMBDA sec : setAnswerKey(sec, key)),
                   [k \in 1..Len(rows) |->
                       StudentAnswers_filled(
                           StudentAnswers_init(IF k = 1 THEN "1" ELSE "2"), rows[k])]),
         LAMBDA sec : calculateScoresFromAnswerKey(sec))

\* the exams of n students and q questions among them
ItemExamsOf(n, q) ==
    {BuildExam(EmptyOptions,
               [s \in SectionIds |-> IF s = 1 THEN built.obj ELSE ExamSection_init]) :
        built \in {r \in {BuildKeyedSection(key, <<rows>>, MaxChoice) :
                            key \in [1..q -> 1..MaxChoice],
                            rows \in RespondentRows(n, q)} : r.res = "ok"}}

\* the exams the item statistics are studied on: one section of MaxChoice
\* choices with one group of 2..MaxRespondents students and 1..MaxItems
\* questions, at most MaxResponses responses in all
ItemExamInputs ==
    {b \in UNION {ItemExamsOf(nq[1], nq[2]) :
                    nq \in {x \in (2..MaxRespondents) \X (1..MaxItems) :
                                x[1] * x[2] <= MaxResponses}}
        : b.res = "ok"}

\* the sections of n students in one group, 1..MaxQuestions questions of
\* MaxChoice choices, scored from the key
KeyedSections(n) ==
    {r.obj : r \in {b \in UNION {{BuildKeyedSection(key, <<rows>>, MaxChoice) :
                                    key \in [1..q -> 1..MaxChoice],
                                    rows \in RespondentRows(n, q)} :
                                 q \in 1..MaxQuestions} :
                      b.res = "ok"}}

\* the exams of several sections, whose question counts may differ
SectionedExamInputs ==
    {b \in {BuildExam(EmptyOptions, secs) :
                secs \in [SectionIds -> KeyedSections(PairedStudents)]}
        : b.res = "ok"}

(***************************************************************************)
(* The calls on one ExamSection.                                           *)
(***************************************************************************)
Called(op, sid, res, own) ==
    [op |-> op, sid |-> sid, res |-> res, own |-> own, ret |-> <<>>]

SectionCall(op, s, r) ==
    /\ sections' = [sections EXCEPT ![s] = r.obj]
    /\ last' = Called(op, s, r.res, <<>>)
    /\ UNCHANGED <<exam, stat, sparse>>

SetOptions(s) ==
    \E o \in OptionInputs :
        SectionCall("setOptions", s, ExamSection_setOptions(sections[s], o))

SetResponsesPerQuestion(s) ==
    \E r \in RpqInputs :
        SectionCall("setResponsesPerQuestion", s,
                    setResponsesPerQuestion(sections[s], r))

SetAnswerKey(s) ==
    \E key \in KeyInputs :
        SectionCall("setAnswerKey", s, setAnswerKey(sections[s], key))

AddStudentAnswers(s, groups) ==
    /\ Len(sections[s].studentAnswersGroups) < MaxGroups
    /\ \E g \in groups :
        SectionCall("addStudentAnswers", s, addStudentAnswers(sections[s], g))

ReverseAnswerOrderingIfNecessary(s) ==
    SectionCall("reverseAnswerOrderingIfNecessary", s,
                reverseAnswerOrderingIfNecessary(sections[s]))

CalculateScoresFromAnswerKey(s) ==
    SectionCall("calculateScoresFromAnswerKey", s,
                calculateScoresFromAnswerKey(sections[s]))

\* StudentAnswers.calculateScoresForAnswerKey called on a group the section
\* holds (the section shares the object); last.own keeps the arguments
CalculateScoresForAnswerKey(s) ==
    \E k \in 1..Len(sections[s].studentAnswersGroups), key \in KeyInputs :
        LET r == calculateScoresForAnswerKey(sections[s].studentAnswersGroups[k], key)
        IN  /\ sections' = [sections EXCEPT ![s].studentAnswersGroups[k] = r.obj]
            /\ last' = Called("calculateScoresForAnswerKey", s, r.res, <<k, key>>)
            /\ UNCHANGED <<exam, stat, sparse>>

(***************************************************************************)
(* The calls on the Exam.                                                  *)
(***************************************************************************)
ExamCall(op, sid, r, own) ==
    /\ exam' = r.exam
    /\ sections' = r.sections
    /\ last' = Called(op, sid, r.res, own)
    /\ UNCHANGED <<stat, sparse>>

AddExamSection(s) ==
    /\ Len(exam.examSections) < MaxSections
    /\ ExamCall("addExamSection", s, addExamSection(exam, sections, s),
                <<sections[s].options>>)

ExamSetOptions ==
    \E o \in OptionInputs :
        ExamCall("Exam.setOptions", 0, Exam_setOptions(exam, sections, o), <<>>)

\* Exam(fromDict): the constructor, so it acts where no Exam exists yet
ExamFromDict ==
    /\ last.op = "init"
    /\ \E d \in ExamDictInputs :
        ExamCall("Exam.fromDict", 0, Exam_fromDict(sections, d),
                 [k \in 1..Len(d["exam-sections"]) |->
                    IF "options" \in DOMAIN d["exam-sections"][k]
                    THEN d["exam-sections"][k].options ELSE EmptyOptions])

ExamReverseAnswerOrderingIfNecessary ==
    ExamCall("Exam.reverseAnswerOrderingIfNecessary", 0,
             Exam_reverseAnswerOrderingIfNecessary(exam, sections), <<>>)

(***************************************************************************)
(* StatData.processExam, step by step, and the two message calls.          *)
(***************************************************************************)
StatStep(st) ==
    /\ stat' = st
    /\ UNCHANGED <<sections, exam, last, sparse>>

\* the call: "for examSection in exam.examSections()" starts
ProcessExam ==
    /\ stat.pc = "new"
    /\ stat' = [stat EXCEPT !.pc = "section", !.sectionIdx = 1]
    /\ last' = Called("processExam", 0, "running", <<>>)
    /\ UNCHANGED <<sections, exam, sparse>>

ProcessExamSection ==
    /\ stat.pc = "section"
    /\ stat.sectionIdx <= Len(exam.examSections)
    /\ StatStep(SectionHead(stat, exam, CurrentSection))

TallyGroup ==
    /\ stat.pc = "groups"
    /\ StatStep(GroupHead(stat, CurrentSection))

TallyStudent ==
    /\ stat.pc = "students"
    /\ StatStep(StudentHead(stat, CurrentSection))

TallyQuestion ==
    /\ stat.pc = "questions"
    /\ Len(QuestionStep(stat, CurrentSection).messages) <= MaxMessages
    /\ StatStep(QuestionStep(stat, CurrentSection))

\* the warning list has outgrown the memory: list.append raises MemoryError,
\* or the system ends the process
OutOfMemory ==
    /\ stat.pc = "questions"
    /\ Len(QuestionStep(stat, CurrentSection).messages) > MaxMessages
    /\ \/ StatStep(StatRaise(stat, "MemoryError"))
       \/ StatStep([stat EXCEPT !.pc = "killed"])

SummarizeSection ==
    /\ stat.pc = "summary"
    /\ StatStep(SectionSummary(stat, CurrentSection, exam.examSections[stat.sectionIdx]))

AggregatePass ==
    /\ stat.pc = "section"
    /\ stat.sectionIdx > Len(exam.examSections)
    /\ stat' \in AggregateOutcomes(stat)
    /\ exam' = IF stat'.pc = "done" THEN CopiesFixup(exam, stat) ELSE exam
    /\ UNCHANGED <<sections, last, sparse>>

\* StatData.messages: the list itself is returned, and kept
StatData_messages(st) == [ret |-> st.messages, obj |-> st]

\* StatData.clearMessages
StatData_clearMessages(st) == [st EXCEPT !.messages = <<>>]

\* a caller holds the StatData before processExam and once it has returned
\* or raised
AtRest == stat.pc \in {"new", "done", "raised"}

Messages ==
    /\ AtRest
    /\ stat' = StatData_messages(stat).obj
    /\ last' = [Called("messages", 0, "ok", <<>>) EXCEPT
                    !.ret = StatData_messages(stat).ret]
    /\ UNCHANGED <<sections, exam, sparse>>

ClearMessages ==
    /\ AtRest
    /\ stat' = StatData_clearMessages(stat)
    /\ last' = Called("clearMessages", 0, "ok", <<>>)
    /\ UNCHANGED <<sections, exam, sparse>>

(***************************************************************************)
(* The calls on a SparseStorage.  Beside the object, sparse keeps what a   *)
(* caller knows of it: the value each index was last given (written), and  *)
(* how many writes were made.                                              *)
(***************************************************************************)
FillInputs == {0, 3}
ValueInputs == {1, 2}
DeltaInputs == {1}
MultiplierInputs == {2}

\* index tuples of every length up to one more than the highest rank
StorageKeyInputs == SeqsOf(0..MaxIndex, 0, MaxRank + 1)

\* the value a caller last gave the index, or the fill-in value
LastWritten(key) ==
    IF key \in DOMAIN sparse.written THEN sparse.written[key]
    ELSE sparse.obj.fillInValue

StorageRead(key) ==
    LET r == SparseStorage_valueAtIndex(sparse.obj, key)
    IN  /\ sparse' = [sparse EXCEPT !.obj = r.obj]
        /\ last' = [Called("valueAtIndex", 0, r.res, <<key>>) EXCEPT
                        !.ret = IF r.res = "ok" THEN <<r.ret>> ELSE <<>>]
        /\ UNCHANGED <<sections, exam, stat>>

StorageWrite(op, key, arg, r, value) ==
    /\ r.res = "ok" => sparse.writes < MaxWrites
    /\ sparse' = IF r.res = "ok"
                 THEN [ obj |-> r.obj,
                        written |-> setValueAtIndex(sparse.written, key, value),
                        writes |-> sparse.writes + 1 ]
                 ELSE [sparse EXCEPT !.obj = r.obj]
    /\ last' = Called(op, 0, r.res, <<key, arg>>)
    /\ UNCHANGED <<sections, exam, stat>>

ValueAtIndex == \E key \in StorageKeyInputs : StorageRead(key)

SetValueAtIndex ==
    \E key \in StorageKeyInputs, v \in ValueInputs :
        StorageWrite("setValueAtIndex", key, v,
                     SparseStorage_setValueAtIndex(sparse.obj, key, v), v)

AddValueAtIndex ==
    \E key \in StorageKeyInputs, d \in DeltaInputs :
        StorageWrite("addValueAtIndex", key, d,
                     SparseStorage_addValueAtIndex(sparse.obj, key, d),
                     LastWritten(key) + d)

ScaleValueAtIndex ==
    \E key \in StorageKeyInputs, f \in MultiplierInputs :
        StorageWrite("scaleValueAtIndex", key, f,
                     SparseStorage_scaleValueAtIndex(sparse.obj, key, f),
                     LastWritten(key) * f)

(***************************************************************************)
(* Specifications.                                                         *)
(***************************************************************************)
\* the statistics engine, run on every exam of StatExamInputs
InitStat ==
    /\ \E b \in StatExamInputs :
          /\ sections = b.sections
          /\ exam = b.exam
    /\ last = Called("init", 0, "ok", <<>>)
    /\ stat = StatData_init
    /\ sparse = NoStorage

NextStat ==
    \/ ProcessExam
    \/ ProcessExamSection
    \/ TallyGroup
    \/ TallyStudent
    \/ TallyQuestion
    \/ OutOfMemory
    \/ SummarizeSection
    \/ AggregatePass
    \/ Messages
    \/ ClearMessages

SpecStat == InitStat /\ [][NextStat]_vars

\* the statistics engine, run on every exam of ItemExamInputs
InitItems ==
    /\ \E b \in ItemExamInputs :
          /\ sections = b.sections
          /\ exam = b.exam
    /\ last = Called("init", 0, "ok", <<>>)
    /\ stat = StatData_init
    /\ sparse = NoStorage

NextItems ==
    \/ ProcessExam
    \/ ProcessExamSection
    \/ TallyGroup
    \/ TallyStudent
    \/ TallyQuestion
    \/ SummarizeSection
    \/ AggregatePass

SpecItems == InitItems /\ [][NextItems]_vars

\* the statistics engine, run on every exam of SectionedExamInputs
InitSectioned ==
    /\ \E b \in SectionedExamInputs :
          /\ sections = b.sections
          /\ exam = b.exam
    /\ last = Called("init", 0, "ok", <<>>)
    /\ stat = StatData_init
    /\ sparse = NoStorage

\* the statistics engine, run on the exams of the three families
InitExams == InitStat \/ InitItems \/ InitSectioned

SpecExams == InitExams /\ [][NextStat]_vars

\* one group in a fresh section, its scores recomputed from key after key
InitGroup ==
    /\ \E g \in ScoredGroupInputs :
          sections = [s \in SectionIds |->
                        IF s = 1 THEN addStudentAnswers(ExamSection_init, g).obj
                        ELSE ExamSection_init]
    /\ exam = Exam_init
    /\ last = Called("init", 0, "ok", <<>>)
    /\ stat = StatData_init
    /\ sparse = NoStorage

NextGroup == CalculateScoresForAnswerKey(1)

SpecGroup == InitGroup /\ [][NextGroup]_vars

\* one SparseStorage of rank 1..MaxRank, read and written call by call
InitStorage ==
    /\ sections = [s \in SectionIds |-> ExamSection_init]
    /\ exam = Exam_init
    /\ last = Called("init", 0, "ok", <<>>)
    /\ stat = StatData_init
    /\ \E rank \in 1..MaxRank, fillInValue \in FillInputs :
          sparse = [ obj |-> SparseStorage_init(rank, fillInValue),
                     written |-> EmptyStorage, writes |-> 0 ]

NextStorage ==
    \/ ValueAtIndex
    \/ SetValueAtIndex
    \/ AddValueAtIndex
    \/ ScaleValueAtIndex

SpecStorage == InitStorage /\ [][NextStorage]_vars

Init ==
    /\ sections = [s \in SectionIds |-> ExamSection_init]
    /\ exam = Exam_init
    /\ last = Called("init", 0, "ok", <<>>)
    /\ stat = StatData_init
    /\ sparse = NoStorage

\* one ExamSection, built call by call from the full input sets
NextSection ==
    \E s \in {1} :
        \/ SetOptions(s)
        \/ SetResponsesPerQuestion(s)
        \/ SetAnswerKey(s)
        \/ AddStudentAnswers(s, GroupInputs)
        \/ ReverseAnswerOrderingIfNecessary(s)
        \/ CalculateScoresFromAnswerKey(s)

SpecSection == Init /\ [][NextSection]_vars

\* an Exam and its sections; the groups differ in id and size only
Next ==
    \/ \E s \in SectionIds :
        \/ SetOptions(s)
        \/ AddStudentAnswers(s, PlainGroupInputs)
        \/ AddExamSection(s)
    \/ ExamSetOptions
    \/ ExamFromDict
    \/ ExamReverseAnswerOrderingIfNecessary

Spec == Init /\ [][Next]_vars

(***************************************************************************)
(* Properties of the response model.                                       *)
(***************************************************************************)
\* the reversed index of one answer: 0 (omitted) stays 0
Remap(a, responsesPerQuestion) ==
    IF a # 0 THEN responsesPerQuestion + 1 - a ELSE 0

RemapSeq(v, responsesPerQuestion) ==
    [k \in 1..Len(v) |-> Remap(v[k], responsesPerQuestion)]

\* the groups that hold at least one student
FilledGroups(sec) ==
    {k \in 1..Len(sec.studentAnswersGroups) :
        Len(sec.studentAnswersGroups[k].answers) > 0}

\* C2: when is-order-reversed is set (and responsesPerQuestion is positive,
\* as the mapping needs), reverseAnswerOrderingIfNecessary completes, maps every answer a of every group to responsesPerQuestion+1-a
\* (0 stays 0), maps the answer key the same way, and keeps the number of
\* groups, students and questions.
C2_ReverseRemapsAnswers ==
    [][\A s \in SectionIds :
        ( /\ last'.op = "reverseAnswerOrderingIfNecessary"
          /\ last'.sid = s
          /\ Options_getitem(sections[s].options, "is-order-reversed")
          /\ sections[s].responsesPerQuestion > 0 )
        => LET old == sections[s]
               new == sections'[s]
               n == old.responsesPerQuestion
           IN  /\ last'.res = "ok"
               /\ new.answerKey = RemapSeq(old.answerKey, n)
               /\ Len(new.studentAnswersGroups) = Len(old.studentAnswersGroups)
               /\ \A k \in 1..Len(old.studentAnswersGroups) :
                    new.studentAnswersGroups[k].answers =
                        [a \in 1..Len(old.studentAnswersGroups[k].answers) |->
                            RemapSeq(old.studentAnswersGroups[k].answers[a], n)]
      ]_vars

\* C3: no two groups of one section share a groupId (addStudentAnswers
\* refuses a group whose id the section already holds).
C3_NoDuplicateGroupIds ==
    \A s \in SectionIds :
        \A i, j \in 1..Len(sections[s].studentAnswersGroups) :
            i # j => sections[s].studentAnswersGroups[i].groupId
                        # sections[s].studentAnswersGroups[j].groupId

\* C4: every section of the exam has the group identifiers of the first
\* section and, per identifier, the student count that group has there.
C4_SectionsAgreeOnGroups ==
    \A k \in 1..Len(exam.examSections) :
        LET sec == sections[exam.examSections[k]]
            first == sections[exam.examSections[1]]
        IN  /\ Range(studentAnswersGroupIds(sec)) = Range(studentAnswersGroupIds(first))
            /\ \A i \in 1..Len(sec.studentAnswersGroups) :
               \A j \in 1..Len(first.studentAnswersGroups) :
                    sec.studentAnswersGroups[i].groupId
                        = first.studentAnswersGroups[j].groupId
                    => StudentAnswers_studentCount(sec.studentAnswersGroups[i])
                        = StudentAnswers_studentCount(first.studentAnswersGroups[j])

\* C5: all groups of a section have one answer-vector length, and with a
\* non-empty answer key that length is the key's length.
C5_AnswerLengthsAgree ==
    \A s \in SectionIds :
        LET sec == sections[s]
        IN  /\ \A i, j \in FilledGroups(sec) :
                  answerCount(sec.studentAnswersGroups[i])
                      = answerCount(sec.studentAnswersGroups[j])
            /\ Len(sec.answerKey) > 0 =>
                  \A i \in FilledGroups(sec) :
                      answerCount(sec.studentAnswersGroups[i]) = Len(sec.answerKey)

\* C6: responsesPerQuestion is at least every value of the answer key and
\* every answer of every student of the section.
C6_ResponsesPerQuestionBoundsAnswers ==
    \A s \in SectionIds :
        LET sec == sections[s]
        IN  /\ \A k \in 1..Len(sec.answerKey) :
                  sec.answerKey[k] <= sec.responsesPerQuestion
            /\ \A g \in 1..Len(sec.studentAnswersGroups) :
               \A a \in 1..Len(sec.studentAnswersGroups[g].answers) :
               \A k \in 1..Len(sec.studentAnswersGroups[g].answers[a]) :
                  sec.studentAnswersGroups[g].answers[a][k] <= sec.responsesPerQuestion

\* C7: once a section is attached (addExamSection, or the Exam built from a
\* dictionary), each option reads as the value the section set itself, and
\* as the exam's value only for a key the section did not set.
C7_SectionOptionsOverrideExam ==
    (last.op \in {"addExamSection", "Exam.fromDict"} /\ last.res = "ok")
    => \A i \in 1..Len(last.own) :
        LET sec == sections[IF last.op = "addExamSection" THEN last.sid ELSE i]
        IN  \A key \in OptionKeys :
                Options_getitem(sec.options, key) =
                    IF key \in DOMAIN last.own[i]
                    THEN last.own[i][key]
                    ELSE Options_getitem(exam.options, key)


(***************************************************************************)
(* Properties of the statistics engine.                                    *)
(***************************************************************************)
\* the answers recorded in a section, over all its groups
SectionRows(sec) ==
    UNION {Range(sec.studentAnswersGroups[k].answers) :
              k \in 1..Len(sec.studentAnswersGroups)}

\* a section as the data model describes it: a key of Q >= 1 values in
\* 1..responsesPerQuestion, and every answer vector Q values in
\* 0..responsesPerQuestion
WellFormedSection(sec) ==
    /\ sec.responsesPerQuestion >= 1
    /\ Len(sec.answerKey) >= 1
    /\ \A i \in 1..Len(sec.answerKey) :
          sec.answerKey[i] \in 1..sec.responsesPerQuestion
    /\ \A row \in SectionRows(sec) :
          /\ Len(row) = Len(sec.answerKey)
          /\ \A i \in 1..Len(row) : row[i] \in 0..sec.responsesPerQuestion

\* an exam as the data model describes it: well-formed sections that agree
\* on the students of every group
WellFormedExam ==
    /\ Len(exam.examSections) >= 1
    /\ \A k \in 1..Len(exam.examSections) :
          /\ WellFormedSection(sections[exam.examSections[k]])
          /\ studentCount(sections[exam.examSections[k]]) =
                studentCount(sections[exam.examSections[1]])
          /\ studentAnswersGroupIds(sections[exam.examSections[k]]) =
                studentAnswersGroupIds(sections[exam.examSections[1]])

\* N, the students of the exam
ExamStudents == totalStudentCount(sections[exam.examSections[1]])

\* every section's choices have a threshold in CHEK
ChoicesWithinTable ==
    \A k \in 1..Len(exam.examSections) :
        ListIndexOk(sections[exam.examSections[k]].responsesPerQuestion, Len(CHEK))

\* C1: in the per-question tally loop, after a warning is recorded for a
\* response that is negative or greater than responsesPerQuestion, the loop
\* advances to the next question (so the pass over a finite section ends).
C1_TallyAdvancesAfterWarning ==
    [][( /\ stat.pc = "questions"
         /\ Len(stat'.messages) > Len(stat.messages) )
        => stat'.i = stat.i + 1]_vars

\* C8: for an exam that satisfies the data-model invariants, with N >= 1
\* students and K >= 1 questions and every response in
\* 0..responsesPerQuestion (the choices within the threshold table),
\* processExam never raises.
C8_ProcessExamCompletes ==
    ( /\ WellFormedExam
      /\ ExamStudents >= 1
      /\ ChoicesWithinTable )
    => stat.pc # "raised"

\* C9: for a well-formed section with C >= 1 choices and Q >= 1 questions
\* (and the two students a variance needs), once processExamSection has ended
\* the section has its summary, whatever C is.
C9_SectionSummaryForEveryChoiceCount ==
    ( /\ WellFormedExam
      /\ ExamStudents >= 2
      /\ stat.pc \in {"raised", "done"} )
    => exam.examSections[1] \in DOMAIN stat.sectionSummary

\* C10: once messages() has returned the accumulated warnings the warning
\* list is empty, so a second messages() call returns an empty list.
C10_MessagesLeavesListEmpty ==
    last.op = "messages" => stat.messages = <<>>


\* the students of a section (group, row) who answered question i as keyed
CorrectAnswerers(sec, i) ==
    {ga \in UNION {{<<g, a>> : a \in 1..Len(sec.studentAnswersGroups[g].answers)} :
                        g \in 1..Len(sec.studentAnswersGroups)} :
        sec.studentAnswersGroups[ga[1]].answers[ga[2]][i] = sec.answerKey[i]}

\* the correct answers given in a section, over all its questions
SectionCorrect(sec) ==
    SumSeq([i \in 1..Len(sec.answerKey) |-> Cardinality(CorrectAnswerers(sec, i))])

\* the correct answers given in the exam
ExamCorrect ==
    SumSeq([k \in 1..Len(exam.examSections) |-> SectionCorrect(sections[exam.examSections[k]])])

\* C11: once processExam (on a fresh StatData) has returned, the summary's
\* mean-difficulty is the mean over all K items of correctCount / N, every
\* item counted with its own difficulty.
C11_MeanDifficultyIsMeanOfItems ==
    stat.pc = "done"
    => FracEq(stat.examSummary["mean-difficulty"],
              Frac(ExamCorrect, ExamStudents * totalQuestionCount(exam, sections)))


\* the correlation bucket (1..6) of a biserial value, with the breakpoints
\* 0.10, 0.30, 0.50, 0.70, 0.90
BiserialBucket(bis) ==
    IF bis * 100 <= 10 * FixedOne THEN 1
    ELSE IF bis * 100 <= 30 * FixedOne THEN 2
    ELSE IF bis * 100 <= 50 * FixedOne THEN 3
    ELSE IF bis * 100 <= 70 * FixedOne THEN 4
    ELSE IF bis * 100 <= 90 * FixedOne THEN 5
    ELSE 6

\* the items of the section last processed with 0 < DIFI < 1
ItemsBetween ==
    {i \in 1..stat.ITEMN :
        valueAtIndex(stat.ICOUNT, <<i>>) > 0 /\ valueAtIndex(stat.ICOUNT, <<i>>) < stat.ITN}

\* C12: in the summary of a one-section exam every item with 0 < DIFI < 1 is
\* counted in the correlation bucket of its BIS, with the breakpoints 0.10,
\* 0.30, 0.50, 0.70 and 0.90.
C12_BiserialBucketsByBreakpoints ==
    (stat.pc = "done" /\ Len(exam.examSections) = 1)
    => \A b \in 1..6 :
          stat.examSummary["distribution-by-biserial-correlation"][b] =
              Cardinality({i \in ItemsBetween :
                              BiserialBucket(valueAtIndex(stat.BIS, <<i>>)) = b})


\* the summary of the only section of a one-section exam
OnlySection == sections[exam.examSections[1]]

OnlySummary == stat.sectionSummary[exam.examSections[1]]

\* C13: in a section with C choices per question the low-selection threshold
\* is the C-th of the values 0.2, 0.2, 0.1, 0.07, 0.05, 0.04, ..., and every
\* non-keyed choice in 1..C chosen by a share strictly below it is reported
\* questionable.
C13_ThresholdIsCthValue ==
    (stat.pc = "done" /\ Len(exam.examSections) = 1)
    => \A i \in 1..Len(OnlySection.answerKey) :
          \A j \in 1..OnlySection.responsesPerQuestion :
              ( /\ j # OnlySection.answerKey[i]
                /\ FracLess(OnlySummary[i].chosenByRatio[j],
                            Frac(CHEK[OnlySection.responsesPerQuestion], 100)) )
              => OnlySummary[i].isQuestionable[j]


\* the keyed choice of question i is flagged by its share alone
KeyedRule(i) ==
    LET k == OnlySection.answerKey[i]
    IN  \/ FracLess(OnlySummary[i].chosenByRatio[k], Frac(20, 100))
        \/ FracLess(Frac(80, 100), OnlySummary[i].chosenByRatio[k])

\* a non-keyed choice j of question i is flagged by its share, by its
\* choosers' mean score or by the keyed choosers' mean score
NonKeyedRule(i, j) ==
    LET k == OnlySection.answerKey[i]
    IN  \/ FracLess(OnlySummary[i].chosenByRatio[j],
                    Frac(CHEK[OnlySection.responsesPerQuestion], 100))
        \/ FracLess(OnlySummary[i].meanScore[k], OnlySummary[i].meanScore[j])
        \/ FracLess(OnlySummary[i].meanScore[k], FMEAN(stat))

\* C14: in the summary of a section the keyed choice of every question is
\* questionable exactly when its share is below 0.2 or above 0.8, and a
\* non-keyed choice exactly when its share is below the threshold for C, its
\* choosers' mean score exceeds the keyed choosers' mean score, or the keyed
\* choosers' mean score is below the test mean.
C14_QuestionableExactlyByRule ==
    (stat.pc = "done" /\ Len(exam.examSections) = 1)
    => \A i \in 1..Len(OnlySection.answerKey) :
          \A j \in 1..OnlySection.responsesPerQuestion :
              OnlySummary[i].isQuestionable[j]
                  <=> IF j = OnlySection.answerKey[i] THEN KeyedRule(i) ELSE NonKeyedRule(i, j)


\* the passing bucket (1..5) of an item that c of n students answered as keyed
BucketOfCount(c, n) ==
    IF 100 * c <= 19 * n THEN 1
    ELSE IF 100 * c <= 39 * n THEN 2
    ELSE IF 100 * c <= 59 * n THEN 3
    ELSE IF 100 * c <= 79 * n THEN 4
    ELSE 5

\* the items of a section that fall in passing bucket b
ItemsInBucket(sec, b) ==
    Cardinality({i \in 1..Len(sec.answerKey) :
        BucketOfCount(Cardinality(CorrectAnswerers(sec, i)), totalStudentCount(sec)) = b})

\* the five passing counts StatData holds
PassingCounts == <<stat.IDO, stat.IDTW, stat.IDTH, stat.IDFO, stat.IDFI>>

\* C15: on a well-formed exam and a fresh StatData, once processExamSection
\* has returned for the first k sections every item of them is counted in
\* exactly one passing bucket, the one of DIFI = correctCount / N with the
\* cuts 0.19, 0.39, 0.59, 0.79, 1.0; once processExam has returned the five
\* counts of the summary sum to the total question count.
C15_PassingBucketsPartitionItems ==
    (WellFormedExam /\ stat.pc \in {"section", "done"})
    => /\ \A b \in 1..5 :
             PassingCounts[b] =
                SumSeq([k \in 1..(stat.sectionIdx - 1) |->
                            ItemsInBucket(sections[exam.examSections[k]], b)])
       /\ stat.pc = "done"
            => /\ stat.examSummary["distribution-by-passing"] = PassingCounts
               /\ SumSeq(PassingCounts) = totalQuestionCount(exam, sections)

\* processExam has returned for an exam of four students with an item three
\* of them answered as keyed, counted in the 60-79 bucket
C15_Witness ==
    /\ stat.pc = "done"
    /\ ExamStudents = 4
    /\ \E i \in 1..Len(OnlySection.answerKey) :
          Cardinality(CorrectAnswerers(OnlySection, i)) = 3
    /\ stat.IDFO >= 1


\* item i of a section was answered as keyed by all its students
AllCorrect(sec, i) ==
    Cardinality(CorrectAnswerers(sec, i)) = totalStudentCount(sec)

\* item i of a section was answered as keyed by none of its students
NoneCorrect(sec, i) == CorrectAnswerers(sec, i) = {}

\* processExamSection has ended for the k-th section, by return or by raise
SectionEnded(k) ==
    \/ stat.sectionIdx > k
    \/ stat.sectionIdx = k /\ stat.pc = "raised"

\* C16: in a well-formed exam of N >= 1 students, once processExamSection has
\* ended for a section, it has not raised and the section has its summary; an
\* item all N students answered as keyed has BIS = PBIS = T = 0, DIFI = 1.0
\* and is counted in the 80-100 bucket; an item no student answered as keyed has
\* BIS = PBIS = T = 0, DIFI = 0.0 and is counted in the 0-19 bucket.
C16_AllOrNoneCorrectItems ==
    (WellFormedExam /\ ExamStudents >= 1)
    => \A k \in 1..Len(exam.examSections) :
          LET sid == exam.examSections[k]
              sec == sections[sid]
              Q == Len(sec.answerKey)
          IN  ( /\ SectionEnded(k)
                /\ \E i \in 1..Q : AllCorrect(sec, i) \/ NoneCorrect(sec, i) )
              => /\ ~(stat.sectionIdx = k /\ stat.pc = "raised")
                 /\ sid \in DOMAIN stat.sectionSummary
                 /\ \A i \in 1..Q :
                       (AllCorrect(sec, i) \/ NoneCorrect(sec, i))
                       => /\ stat.sectionSummary[sid][i].biserialCorrelation = 0
                          /\ stat.sectionSummary[sid][i].pointwiseBiserialCorrelation = 0
                          /\ stat.sectionSummary[sid][i].tValue = 0
                          /\ (stat.sectionIdx = k + 1 /\ stat.pc = "section")
                                => FracEq(FracAt(stat.DIFI, <<i>>),
                                          IF AllCorrect(sec, i) THEN Frac(1, 1) ELSE Frac(0, 1))
                 /\ stat.IDFI >= Cardinality({i \in 1..Q : AllCorrect(sec, i)})
                 /\ stat.IDO >= Cardinality({i \in 1..Q : NoneCorrect(sec, i)})


\* the scores recorded in a section, over all its groups
SectionScores(sec) ==
    UNION {Range(sec.studentAnswersGroups[g].scores) :
              g \in 1..Len(sec.studentAnswersGroups)}

\* a section of N >= 2 students who all have the same score
ZeroVariance(sec) ==
    /\ totalStudentCount(sec) >= 2
    /\ Cardinality(SectionScores(sec)) = 1

\* C17: in a well-formed exam, for a section of N >= 2 students who all have
\* the same score: processing it divides by no zero (no ZeroDivisionError),
\* every item of its summary has BIS = PBIS = T = 0, and once processExam has
\* returned the exam summary's KR-20 reliability and standard error of
\* measurement are both 0.
C17_ZeroVarianceGivesZeros ==
    WellFormedExam
    => \A k \in 1..Len(exam.examSections) :
          LET sid == exam.examSections[k]
              sec == sections[sid]
          IN  (ZeroVariance(sec) /\ SectionEnded(k))
              => /\ ~(stat.pc = "raised" /\ stat.exc = "ZeroDivisionError")
                 /\ sid \in DOMAIN stat.sectionSummary
                       => \A i \in 1..Len(sec.answerKey) :
                             /\ stat.sectionSummary[sid][i].biserialCorrelation = 0
                             /\ stat.sectionSummary[sid][i].pointwiseBiserialCorrelation = 0
                             /\ stat.sectionSummary[sid][i].tValue = 0
                 /\ stat.pc = "done"
                       => /\ FracEq(stat.examSummary["kuder-richardson-20-reliability"],
                                    Frac(0, 1))
                          /\ stat.examSummary["std-error-of-measurement-kr-20"] = 0


\* every response of the exam lies in 0..responsesPerQuestion of its section
ResponsesInRange ==
    \A k \in 1..Len(exam.examSections) :
        LET sec == sections[exam.examSections[k]]
        IN  \A row \in SectionRows(sec) :
                \A i \in 1..Len(row) : row[i] \in 0..sec.responsesPerQuestion

\* processExamSection has returned at least once and no section is in progress
BetweenSections ==
    /\ stat.pc \in {"section", "done"}
    /\ stat.sectionIdx >= 2

\* C18: for an exam whose responses all lie in 0..responsesPerQuestion, after
\* processExamSection every item's correct count is in 0..N, the correct
\* counts of the section sum to at most N * Q, every DIFI is in [0, 1], and
\* the "difficulty greater than one or less than zero" warning is not among
\* the messages.
C18_CorrectCountsWithinStudents ==
    (ResponsesInRange /\ BetweenSections)
    => /\ \A i \in 1..stat.ITEMN : valueAtIndex(stat.ICOUNT, <<i>>) \in 0..stat.ITN
       /\ SumSeq([i \in 1..stat.ITEMN |-> valueAtIndex(stat.ICOUNT, <<i>>)])
             <= stat.ITN * stat.ITEMN
       /\ \A key \in DOMAIN stat.DIFI :
             /\ FracLeq(Frac(0, 1), stat.DIFI[key])
             /\ FracLeq(stat.DIFI[key], Frac(1, 1))
       /\ \A m \in 1..Len(stat.messages) :
             stat.messages[m].text # DifficultyMessage(0).text

\* the second section of an exam has been processed, with an item every one
\* of its N >= 2 students answered as keyed and responses all within range
C18_Witness ==
    /\ ResponsesInRange
    /\ stat.pc = "section"
    /\ stat.sectionIdx = 3
    /\ stat.ITN >= 2
    /\ \E i \in 1..stat.ITEMN : valueAtIndex(stat.ICOUNT, <<i>>) = stat.ITN


\* the accumulators the sections leave to the aggregate pass
Accumulators(st) ==
    << st.NNXYZ, st.GITEMN, st.SDI, st.SBIS, st.VAR,
       st.IDO, st.IDTW, st.IDTH, st.IDFO, st.IDFI,
       st.IDVP, st.IDP, st.IDG, st.IDVG, st.IDVVG, st.IDEX,
       st.CNTKEY, st.CNTCHO, st.PROSUM >>

\* the StatData as it is when the aggregate pass starts
BeforeAggregate(st) == [st EXCEPT !.pc = "section"]

\* C19: a step of the aggregate pass leaves every cross-section accumulator as
\* it was, and when it has produced the exam summary, the aggregate pass run
\* once more on the StatData and exam it left produces the same summary and
\* the same exam.
C19_AggregatePassIdempotent ==
    [][ (stat.pc = "section" /\ stat.sectionIdx > Len(exam.examSections))
        => /\ Accumulators(stat') = Accumulators(stat)
           /\ stat'.pc = "done"
                => /\ \E again \in AggregateOutcomes(BeforeAggregate(stat')) :
                         again.pc = "done"
                   /\ \A again \in AggregateOutcomes(BeforeAggregate(stat')) :
                         again.pc = "done"
                         => /\ again.examSummary = stat'.examSummary
                            /\ Accumulators(again) = Accumulators(stat)
                   /\ CopiesFixup(exam', stat') = exam' ]_vars

\* the aggregate pass has produced the summary of a two-section exam from
\* accumulators that are not all zero
C19_Witness ==
    /\ stat.pc = "done"
    /\ Len(exam.examSections) = 2
    /\ stat.GITEMN >= 2
    /\ stat.SDI[1] > 0
    /\ stat.VAR[1] > 0
    /\ stat.examSummary["total-questions"] = stat.GITEMN


\* the k-th section of the exam's list
ListedSection(k) == sections[exam.examSections[k]]

\* the questions of the first k sections of the list
QuestionsThrough(k) ==
    SumSeq([j \in 1..k |-> questionCount(ListedSection(j))])

\* what holds of a StatData st while and after processExam walks the list:
\* the section in progress is the sectionIdx-th of the list; between sections
\* NNXYZ counts the questions of the sections done, each of which has a
\* summary with one entry per question; at the end total-questions is the sum
InListOrder(st) ==
    /\ st.pc \in {"groups", "students", "questions", "summary"}
          => /\ st.sectionIdx \in 1..Len(exam.examSections)
             /\ st.ITEMN = questionCount(ListedSection(st.sectionIdx))
             /\ st.ITN = totalStudentCount(ListedSection(st.sectionIdx))
             /\ st.ICHO = ListedSection(st.sectionIdx).responsesPerQuestion
             /\ st.NNXYZ = QuestionsThrough(st.sectionIdx - 1)
    /\ st.pc \in {"section", "done"}
          => /\ st.sectionIdx \in 1..(Len(exam.examSections) + 1)
             /\ st.NNXYZ = QuestionsThrough(st.sectionIdx - 1)
             /\ \A j \in 1..(st.sectionIdx - 1) :
                   /\ exam.examSections[j] \in DOMAIN st.sectionSummary
                   /\ Len(st.sectionSummary[exam.examSections[j]]) =
                         questionCount(ListedSection(j))
    /\ st.pc = "done"
          => /\ st.sectionIdx = Len(exam.examSections) + 1
             /\ st.examSummary["total-questions"] = totalQuestionCount(exam, sections)

\* C20: processExam (on a fresh StatData) takes the sections one at a time in
\* list order, each once: the position in the list only moves forward by one,
\* NNXYZ never decreases and after the k-th section is the sum of the question
\* counts of sections 1..k; when processExam returns every section has a
\* summary with one entry per question and the exam summary's total-questions
\* is the sum of all sections' question counts.
C20_SectionsInListOrder ==
    [][ /\ stat'.sectionIdx \in {stat.sectionIdx, stat.sectionIdx + 1}
        /\ stat'.NNXYZ >= stat.NNXYZ
        /\ (stat'.sectionIdx = stat.sectionIdx + 1 /\ stat.sectionIdx >= 1)
              => stat'.NNXYZ = stat.NNXYZ + questionCount(ListedSection(stat.sectionIdx))
        /\ InListOrder(stat') ]_vars

\* processExam has returned for an exam of two sections with different
\* question counts
C20_Witness ==
    /\ stat.pc = "done"
    /\ Len(exam.examSections) = 2
    /\ questionCount(ListedSection(1)) # questionCount(ListedSection(2))
    /\ stat.NNXYZ = questionCount(ListedSection(1)) + questionCount(ListedSection(2))


LengthDiffers(sec, g) ==
    /\ Len(g.answers) > 0
    /\ \E k \in 1..Len(sec.studentAnswersGroups) :
          /\ Len(sec.studentAnswersGroups[k].answers) > 0
          /\ answerCount(sec.studentAnswersGroups[k]) # answerCount(g)

\* some response of group g exceeds the responsesPerQuestion the section has
\* configured (0 is "not set yet")
ExceedsConfigured(sec, g) ==
    /\ sec.responsesPerQuestion # 0
    /\ \E a \in 1..Len(g.answers) : \E p \in 1..Len(g.answers[a]) :
          g.answers[a][p] > sec.responsesPerQuestion

\* C22: addStudentAnswers(group) on the section as it is: when the group's
\* answer-vector length differs from that of the groups already there, or a
\* response exceeds the configured responsesPerQuestion, the call fails and
\* the group list and responsesPerQuestion are as before; in every other
\* case it succeeds and the group is the last group of the section.
C22_AddStudentAnswersOutcome ==
    \A g \in GroupInputs :
        LET sec == sections[1]
            r == addStudentAnswers(sec, g)
        IN  IF LengthDiffers(sec, g) \/ ExceedsConfigured(sec, g)
            THEN /\ r.res # "ok"
                 /\ r.obj.studentAnswersGroups = sec.studentAnswersGroups
                 /\ r.obj.responsesPerQuestion = sec.responsesPerQuestion
            ELSE /\ r.res = "ok"
                 /\ r.obj.studentAnswersGroups = Append(sec.studentAnswersGroups, g)


\* a group of the section holds answer vectors of another length than the key
KeyLengthDiffers(sec, key) ==
    \E k \in 1..Len(sec.studentAnswersGroups) :
        /\ Len(sec.studentAnswersGroups[k].answers) > 0
        /\ answerCount(sec.studentAnswersGroups[k]) # Len(key)

\* responsesPerQuestion is fixed (nonzero) and smaller than max(key)
KeyExceedsConfigured(sec, key) ==
    /\ sec.responsesPerQuestion # 0
    /\ \E p \in 1..Len(key) : key[p] > sec.responsesPerQuestion

\* C23: setAnswerKey(key) on the section as it is: when an existing group's
\* answer length differs from len(key), or responsesPerQuestion is fixed and
\* smaller than max(key), the call fails and the answer key and
\* responsesPerQuestion are as before; otherwise the key is stored and
\* responsesPerQuestion, if it was 0, becomes max(key).
C23_SetAnswerKeyOutcome ==
    \A key \in KeyInputs :
        LET sec == sections[1]
            r == setAnswerKey(sec, key)
        IN  IF KeyLengthDiffers(sec, key) \/ KeyExceedsConfigured(sec, key)
            THEN /\ r.res # "ok"
                 /\ r.obj.answerKey = sec.answerKey
                 /\ r.obj.responsesPerQuestion = sec.responsesPerQuestion
            ELSE /\ r.res = "ok"
                 /\ r.obj.answerKey = key
                 /\ r.obj.responsesPerQuestion =
                       IF sec.responsesPerQuestion = 0 /\ Len(key) > 0
                       THEN PyMax(key) ELSE sec.responsesPerQuestion


\* some group of sec has another student count than the group of the same
\* id in the section first
GroupCountDiffers(sec, first) ==
    \E k \in 1..Len(sec.studentAnswersGroups), j \in 1..Len(first.studentAnswersGroups) :
        /\ sec.studentAnswersGroups[k].groupId = first.studentAnswersGroups[j].groupId
        /\ StudentAnswers_studentCount(sec.studentAnswersGroups[k]) #
              StudentAnswers_studentCount(first.studentAnswersGroups[j])

\* no two groups of the section have the same id
DistinctGroupIds(sec) ==
    \A k, j \in 1..Len(sec.studentAnswersGroups) :
        sec.studentAnswersGroups[k].groupId = sec.studentAnswersGroups[j].groupId => k = j

\* C24: addExamSection(section), for sections of distinct group ids, on an
\* exam that already has a section fails when the section's set of group ids
\* differs from the first section's or a group's student count differs from
\* that group's count in the first section, and then the exam's section list and the section's options are
\* as before; a call that succeeds appends the section as the last one.
C24_AddExamSectionOutcome ==
    Len(exam.examSections) > 0
    => \A s \in SectionIds :
          LET sec == sections[s]
              first == sections[exam.examSections[1]]
              r == addExamSection(exam, sections, s)
          IN  (DistinctGroupIds(sec) /\ DistinctGroupIds(first))
              =>
              /\ ( \/ Range(studentAnswersGroupIds(sec)) # Range(studentAnswersGroupIds(first))
                   \/ GroupCountDiffers(sec, first) )
                 => /\ r.res # "ok"
                    /\ r.exam.examSections = exam.examSections
                    /\ r.sections[s].options = sec.options
              /\ r.res = "ok" => r.exam.examSections = Append(exam.examSections, s)

(***************************************************************************)
(* SparseStorage                                                           *)
(***************************************************************************)
\* index tuples of the storage's rank, reaching one past the written range
RankKeys == SeqsOf(0..(MaxIndex + 1), sparse.obj.rank, sparse.obj.rank)

ReadAt(obj, key) == SparseStorage_valueAtIndex(obj, key).ret

\* C25: after any writes, reading an index tuple of the storage's rank
\* returns the value last written at exactly that index, or the fill-in
\* value if it was never written; the read does not raise and leaves the
\* storage and its maxDimension as they were
C25_ReadGivesLastWritten ==
    \A key \in RankKeys :
        LET r == SparseStorage_valueAtIndex(sparse.obj, key)
        IN  /\ r.res = "ok"
            /\ r.ret = LastWritten(key)
            /\ r.obj = sparse.obj

\* a written index of a rank-2 storage was read after both writes
C25_Witness ==
    /\ last.op = "valueAtIndex" /\ last.res = "ok"
    /\ sparse.obj.rank = 2 /\ sparse.writes = MaxWrites
    /\ last.own[1] \in DOMAIN sparse.written
    /\ last.ret = <<sparse.written[last.own[1]]>>
    /\ last.ret # <<sparse.obj.fillInValue>>

\* C26: setValueAtIndex(k, v) succeeds for every index tuple k of the
\* storage's rank, however far beyond the written indices; afterwards k
\* reads v and every other index reads what it read before; after
\* addValueAtIndex(k, d) and scaleValueAtIndex(k, f) k reads old + d and
\* old * f, old being the fill-in value if k was unset
C26_WriteChangesOneIndex ==
    \A key \in RankKeys :
        /\ \A v \in ValueInputs :
              LET r == SparseStorage_setValueAtIndex(sparse.obj, key, v)
              IN  /\ r.res = "ok"
                  /\ ReadAt(r.obj, key) = v
                  /\ \A other \in RankKeys \ {key} :
                        ReadAt(r.obj, other) = ReadAt(sparse.obj, other)
        /\ \A d \in DeltaInputs :
              LET r == SparseStorage_addValueAtIndex(sparse.obj, key, d)
              IN  r.res = "ok" /\ ReadAt(r.obj, key) = LastWritten(key) + d
        /\ \A f \in MultiplierInputs :
              LET r == SparseStorage_scaleValueAtIndex(sparse.obj, key, f)
              IN  r.res = "ok" /\ ReadAt(r.obj, key) = LastWritten(key) * f

\* a rank-2 storage with a fill-in value other than 0 was written in its
\* second list, then scaled at an unset index of the empty first list
C26_Witness ==
    /\ last.op = "scaleValueAtIndex" /\ last.res = "ok"
    /\ sparse.obj.rank = 2 /\ sparse.obj.fillInValue # 0
    /\ sparse.writes = 2
    /\ last.own[1] = <<0, MaxIndex>>
    /\ DOMAIN sparse.written = {<<1, 0>>, <<0, MaxIndex>>}
    /\ sparse.written[last.own[1]] = sparse.obj.fillInValue * last.own[2]

\* C27: each of valueAtIndex, setValueAtIndex, addValueAtIndex and
\* scaleValueAtIndex, given an index tuple whose length is not the
\* storage's rank, fails with the rank-mismatch IndexError and leaves the
\* storage unchanged
C27_RankMismatchRaises ==
    \A key \in StorageKeyInputs :
        Len(key) # sparse.obj.rank
        => /\ SparseStorage_valueAtIndex(sparse.obj, key).res = "IndexError"
           /\ SparseStorage_valueAtIndex(sparse.obj, key).obj = sparse.obj
           /\ \A v \in ValueInputs :
                 SparseStorage_setValueAtIndex(sparse.obj, key, v)
                    = Raise("IndexError", sparse.obj)
           /\ \A d \in DeltaInputs :
                 SparseStorage_addValueAtIndex(sparse.obj, key, d)
                    = Raise("IndexError", sparse.obj)
           /\ \A f \in MultiplierInputs :
                 SparseStorage_scaleValueAtIndex(sparse.obj, key, f)
                    = Raise("IndexError", sparse.obj)

\* a written rank-2 storage was added to at a rank-1 index, and refused
C27_Witness ==
    /\ last.op = "addValueAtIndex" /\ last.res = "IndexError"
    /\ sparse.obj.rank = 2 /\ Len(last.own[1]) = 1
    /\ sparse.writes > 0

(***************************************************************************)
(* The correlation values of an item, from the students' answers and       *)
(* scores themselves.                                                      *)
(***************************************************************************)
\* the students of a section, by group and position
StudentsOf(sec) ==
    UNION {{<<g, a>> : a \in 1..Len(sec.studentAnswersGroups[g].answers)} :
              g \in 1..Len(sec.studentAnswersGroups)}

\* the sum of the scores (p = 1) or squared scores (p = 2) of the students S
RECURSIVE ScoreSum(_, _, _)
ScoreSum(sec, S, p) ==
    IF S = {} THEN 0
    ELSE LET x == CHOOSE y \in S : TRUE
             score == sec.studentAnswersGroups[x[1]].scores[x[2]]
         IN  (IF p = 1 THEN score ELSE score * score) + ScoreSum(sec, S \ {x}, p)

\* the square of the score standard deviation of a section of N >= 2
ScoreVariance(sec) ==
    LET N == Cardinality(StudentsOf(sec))
        sum == ScoreSum(sec, StudentsOf(sec), 1)
    IN  Frac(N * ScoreSum(sec, StudentsOf(sec), 2) - sum * sum, N * (N - 1))

\* the approximation of the normal ordinate with the constants 2.30753,
\* 0.27061, 0.99229, 0.04481 and 0.3989422, in units of 1 / FixedOne, at the
\* areas above one half that up to 8 students give
HastingsOrdinate(area) ==
    CASE area = Frac(4, 7) -> 3927
      [] area = Frac(3, 5) -> 3868
      [] area = Frac(5, 8) -> 3799
      [] area = Frac(2, 3) -> 3650
      [] area = Frac(5, 7) -> 3427
      [] area = Frac(3, 4) -> 3221
      [] area = Frac(4, 5) -> 2872
      [] area = Frac(5, 6) -> 2599
      [] area = Frac(6, 7) -> 2382
      [] area = Frac(7, 8) -> 2207

\* BIS, PBIS and T of item i of a section, 0 < DIFI < 1 and SDEV # 0
ItemCorrelations(sec, i) ==
    LET N == Cardinality(StudentsOf(sec))
        right == CorrectAnswerers(sec, i)
        wrong == StudentsOf(sec) \ right
        DIFI == FracNorm(Frac(Cardinality(right), N))
        Q == FracSub(Frac(1, 1), DIFI)
        pq == FracMul(DIFI, Q)
        FMNCO == FracNorm(Frac(ScoreSum(sec, right, 1), Cardinality(right)))
        FMNIC == FracNorm(Frac(ScoreSum(sec, wrong, 1), Cardinality(wrong)))
        diff == FracSub(FMNCO, FMNIC)
        sign == IF diff[1] < 0 THEN 0 - 1 ELSE 1
        var == ScoreVariance(sec)
        Y == IF DIFI = Frac(1, 2) THEN 3989
             ELSE HastingsOrdinate(IF FracLess(DIFI, Q) THEN Q ELSE DIFI)
        \* (BIS * Y)^2 = ((FMNCO - FMNIC) / SDEV)^2 * (DIFI * Q)^2
        bisY2 == FracMul(FracMul(FracMul(diff, diff), FracMul(pq, pq)),
                         Frac(var[2], var[1]))
        \* PBIS^2 = (BIS * Y)^2 / (DIFI * Q)
        pbis2 == FracMul(bisY2, Frac(pq[2], pq[1]))
        \* T^2 = PBIS^2 * (N - 2) / (1 - PBIS^2)
        t2 == FracMul(pbis2, Frac((N - 2) * pbis2[2], pbis2[2] - pbis2[1]))
    IN  [ BIS |-> sign * ((FixedSqrt(bisY2) * FixedOne) \div Y),
          PBIS |-> sign * FixedSqrt(pbis2),
          T |-> sign * FixedSqrt(t2) ]

\* the items of a section some but not all students answered as keyed
ItemsStrictlyBetween(sec) ==
    {i \in 1..Len(sec.answerKey) : ~AllCorrect(sec, i) /\ ~NoneCorrect(sec, i)}

\* C28: in the summary of a section with a nonzero score deviation, every
\* item with 0 < DIFI < 1 has BIS = ((FMNCO - FMNIC) / SDEV) * DIFI * (1 - DIFI) / Y,
\* PBIS = BIS * Y / sqrt(DIFI * (1 - DIFI)) and T = PBIS * sqrt((N - 2) / (1 - PBIS^2)),
\* FMNCO and FMNIC being the mean scores of the students who answered it
\* correctly and incorrectly, and Y the Hastings ordinate at
\* max(DIFI, 1 - DIFI), or 0.39894 at DIFI = 0.5
C28_CorrelationFormulas ==
    \A k \in 1..Len(exam.examSections) :
        LET sid == exam.examSections[k]
            sec == sections[sid]
        IN  ( /\ SectionEnded(k)
              /\ sid \in DOMAIN stat.sectionSummary
              /\ totalStudentCount(sec) >= 2
              /\ ~ZeroVariance(sec) )
            => \A i \in ItemsStrictlyBetween(sec) :
                  LET c == ItemCorrelations(sec, i)
                  IN  /\ stat.sectionSummary[sid][i].biserialCorrelation = c.BIS
                      /\ stat.sectionSummary[sid][i].pointwiseBiserialCorrelation = c.PBIS
                      /\ stat.sectionSummary[sid][i].tValue = c.T

\* a section of three or more students has its summary, with an item whose
\* DIFI is not 0.5 and whose BIS, PBIS and T are the formulas' nonzero values
C28_Witness ==
    \E k \in 1..Len(exam.examSections) :
        LET sid == exam.examSections[k]
            sec == sections[sid]
        IN  /\ SectionEnded(k)
            /\ sid \in DOMAIN stat.sectionSummary
            /\ totalStudentCount(sec) >= 3
            /\ ~ZeroVariance(sec)
            /\ \E i \in ItemsStrictlyBetween(sec) :
                  /\ 2 * Cardinality(CorrectAnswerers(sec, i)) # totalStudentCount(sec)
                  /\ stat.sectionSummary[sid][i].biserialCorrelation
                        = ItemCorrelations(sec, i).BIS
                  /\ stat.sectionSummary[sid][i].biserialCorrelation # 0
                  /\ stat.sectionSummary[sid][i].tValue = ItemCorrelations(sec, i).T
                  /\ stat.sectionSummary[sid][i].tValue # 0

(***************************************************************************)
(* The tally of out-of-range responses.                                    *)
(***************************************************************************)
\* the students of group l of a section whose response to question i is
\* negative or greater than responsesPerQuestion
OutOfRangeResponses(sec, i, l) ==
    IF l > Len(sec.studentAnswersGroups) THEN {}
    ELSE {a \in 1..Len(sec.studentAnswersGroups[l].answers) :
            /\ i <= Len(sec.studentAnswersGroups[l].answers[a])
            /\ \/ sec.studentAnswersGroups[l].answers[a][i] < 0
               \/ sec.studentAnswersGroups[l].answers[a][i] > sec.responsesPerQuestion}

\* the students of group l of a section who gave question i the response r
Responders(sec, i, l, r) ==
    {a \in 1..Len(sec.studentAnswersGroups[l].answers) :
        /\ i <= Len(sec.studentAnswersGroups[l].answers[a])
        /\ sec.studentAnswersGroups[l].answers[a][i] = r}

\* processExamSection is at work on the current section, or was stopped in it
InSection ==
    /\ stat.pc \in {"groups", "students", "questions", "summary", "raised", "killed"}
    /\ stat.sectionIdx \in 1..Len(exam.examSections)

\* C29: a response that is negative or greater than responsesPerQuestion
\* is warned about once, adds nothing to the per-choice tallies ITAB, JTOT
\* and KSUM, and is counted once in the question's correct count and
\* correct / incorrect score sums: at no time are there more warnings for a
\* question and group than out-of-range responses to it in the sections
\* reached, more in a per-choice tally than the in-range responses give, or
\* more in the correct count and score sums than the students give
C29_OutOfRangeCountedOnce ==
    InSection
    => \A i \in 1..MaxQuestions, l \in 1..MaxGroups :
          /\ Cardinality({n \in 1..Len(stat.messages) :
                            /\ stat.messages[n].question = i
                            /\ stat.messages[n].group = l})
                <= SumSeq([k \in 1..stat.sectionIdx |->
                              Cardinality(OutOfRangeResponses(ListedSection(k), i, l))])
          /\ l <= Len(CurrentSection.studentAnswersGroups)
                => \A j \in 1..(CurrentSection.responsesPerQuestion + 1) :
                      valueAtIndex(stat.ITAB, <<i, j, l>>)
                         <= Cardinality(Responders(CurrentSection, i, l, j - 1))
          /\ i <= Len(CurrentSection.answerKey)
                => /\ valueAtIndex(stat.ICOUNT, <<i>>)
                         <= Cardinality(StudentsOf(CurrentSection))
                   /\ valueAtIndex(stat.ITC, <<i>>) + valueAtIndex(stat.ITIC, <<i>>)
                         <= ScoreSum(CurrentSection, StudentsOf(CurrentSection), 1)

(***************************************************************************)
(* The tallies of a section once processExamSection has returned for it.   *)
(***************************************************************************)
\* processExamSection has just returned for the section before sectionIdx,
\* whose tallies StatData still holds
JustProcessed ==
    /\ stat.pc \in {"section", "done"}
    /\ stat.sectionIdx >= 2
    /\ stat.sectionIdx - 1 <= Len(exam.examSections)

\* every response of a section lies in 0..responsesPerQuestion
SectionInRange(sec) ==
    \A row \in SectionRows(sec) :
        \A i \in 1..Len(row) : row[i] \in 0..sec.responsesPerQuestion

\* C30: once processExamSection has returned for a section whose responses
\* all lie in 0..responsesPerQuestion, the tallies are conserved: for every
\* item and choice (omitted included) the per-group counts sum to the
\* choice's total; the totals of omitted and of the choices sum to the
\* item's total, which is N; the per-group student counts sum to N; the
\* correct count is the total of the keyed choice; and the correct-score
\* sum plus the incorrect-score sum is the sum of all students' scores
C30_TalliesConserved ==
    ( /\ JustProcessed
      /\ SectionInRange(ListedSection(stat.sectionIdx - 1)) )
    => LET sid == exam.examSections[stat.sectionIdx - 1]
           sec == sections[sid]
           N == Cardinality(StudentsOf(sec))
           groups == Len(sec.studentAnswersGroups)
       IN  \A i \in 1..Len(sec.answerKey) :
              LET q == stat.sectionSummary[sid][i]
              IN  /\ \A j \in 1..(sec.responsesPerQuestion + 1) :
                        SumSeq([L \in 1..groups |-> valueAtIndex(stat.ITAB, <<i, j, L>>)])
                           = IF j = 1 THEN q.omitted ELSE q.byAnswer[j - 1]
                  /\ q.omitted + SumSeq(q.byAnswer) = q.total
                  /\ q.total = N
                  /\ SumSeq(q.countByGroup) = N
                  /\ valueAtIndex(stat.ICOUNT, <<i>>)
                        = valueAtIndex(stat.JTOT, <<i, sec.answerKey[i] + 1>>)
                  /\ valueAtIndex(stat.ITC, <<i>>) + valueAtIndex(stat.ITIC, <<i>>)
                        = ScoreSum(sec, StudentsOf(sec), 1)

\* a section of two groups was processed, every response in range, with an
\* omitted response to its first question and a correct-score sum above 0
C30_Witness ==
    /\ JustProcessed
    /\ SectionInRange(ListedSection(stat.sectionIdx - 1))
    /\ Len(ListedSection(stat.sectionIdx - 1).studentAnswersGroups) = 2
    /\ stat.sectionSummary[exam.examSections[stat.sectionIdx - 1]][1].omitted >= 1
    /\ valueAtIndex(stat.ITC, <<1>>) > 0

====
